---- MODULE Spec2Model ----
(***************************************************************************)
(* The X11 selection engine of clipboard-rs (src/src/platform/x11.rs):     *)
(* the clipboard context (payload behind a lock, writer API, blocking      *)
(* reader, background responder thread), the X server state it talks to,   *)
(* one other ICCCM participant, and the change watcher.                    *)
(*                                                                         *)
(* Strings are sequences of Unicode scalar values, byte buffers are        *)
(* sequences of 0..255, atoms are positive integers handed out by the      *)
(* server's atom table, atom names are TLA+ strings.                       *)
(***************************************************************************)
EXTENDS Integers, Sequences, FiniteSets, TLC

(***************************************************************************)
(* Bounds of the model.                                                    *)
(***************************************************************************)
\* conversion requests (read calls) the reader connection may issue
MaxReads == 3
\* times the other participant may claim CLIPBOARD
MaxPeerClaims == 2
\* largest chunk the other participant sends in an incremental transfer
MaxChunk == 2
\* stop tokens handed out by a watcher, events delivered to it, its handlers,
\* and the times start_watch is called
MaxTokens == 2
MaxChanges == 2
MaxHandlers == 2
MaxRuns == 2
\* the largest request, in bytes of property data, the connection of the
\* responder sends (the maximum request length the X server grants)
MaxRequestBytes == 64
\* events another client sends to the owner window
MaxSent == 1
\* atoms the X server has room for: InternAtom of one more name fails (BadAlloc)
MaxAtoms == 24

(***************************************************************************)
(* Sequence helpers.                                                       *)
(***************************************************************************)
RECURSIVE Flatten(_)
Flatten(ss) == IF ss = <<>> THEN <<>> ELSE Head(ss) \o Flatten(Tail(ss))

Contains(s, x) == \E i \in 1..Len(s) : s[i] = x

StartsWith(s, p) == Len(s) >= Len(p) /\ SubSeq(s, 1, Len(p)) = p

Min(a, b) == IF a < b THEN a ELSE b

(***************************************************************************)
(* String <-> bytes: String::as_bytes (UTF-8) and String::from_utf8_lossy. *)
(***************************************************************************)
\* U+FFFD REPLACEMENT CHARACTER, what from_utf8_lossy puts for invalid bytes
ReplacementChar == 65533

Utf8Char(c) ==
    IF c < 128 THEN <<c>>
    ELSE IF c < 2048 THEN <<192 + (c \div 64), 128 + (c % 64)>>
    ELSE IF c < 65536 THEN
        <<224 + (c \div 4096), 128 + ((c \div 64) % 64), 128 + (c % 64)>>
    ELSE <<240 + (c \div 262144), 128 + ((c \div 4096) % 64),
           128 + ((c \div 64) % 64), 128 + (c % 64)>>

\* text.as_bytes().to_vec()
as_bytes(str) == Flatten([i \in 1..Len(str) |-> Utf8Char(str[i])])

\* the byte at position i, 0 past the end (core::str::lossy safe_get)
ByteAt(b, i) == IF i <= Len(b) THEN b[i] ELSE 0

IsCont(x) == x >= 128 /\ x <= 191

\* One step of the lossy decoder at position i: the scalar value produced
\* and the number of bytes consumed.  An invalid or truncated sequence
\* yields U+FFFD and consumes its maximal valid prefix (at least one byte).
DecodeAt(b, i) ==
    LET b1 == b[i]
        b2 == ByteAt(b, i + 1)
        b3 == ByteAt(b, i + 2)
        b4 == ByteAt(b, i + 3)
        bad(n) == [char |-> ReplacementChar, used |-> n]
    IN  IF b1 < 128 THEN [char |-> b1, used |-> 1]
        ELSE IF b1 >= 194 /\ b1 <= 223 THEN
            IF IsCont(b2)
            THEN [char |-> (b1 - 192) * 64 + (b2 - 128), used |-> 2]
            ELSE bad(1)
        ELSE IF b1 >= 224 /\ b1 <= 239 THEN
            LET ok2 == IF b1 = 224 THEN b2 >= 160 /\ b2 <= 191
                       ELSE IF b1 = 237 THEN b2 >= 128 /\ b2 <= 159
                       ELSE IsCont(b2)
            IN  IF ~ok2 THEN bad(1)
                ELSE IF ~IsCont(b3) THEN bad(2)
                ELSE [char |-> (b1 - 224) * 4096 + (b2 - 128) * 64 + (b3 - 128),
                      used |-> 3]
        ELSE IF b1 >= 240 /\ b1 <= 244 THEN
            LET ok2 == IF b1 = 240 THEN b2 >= 144 /\ b2 <= 191
                       ELSE IF b1 = 244 THEN b2 >= 128 /\ b2 <= 143
                       ELSE IsCont(b2)
            IN  IF ~ok2 THEN bad(1)
                ELSE IF ~IsCont(b3) THEN bad(2)
                ELSE IF ~IsCont(b4) THEN bad(3)
                ELSE [char |-> (b1 - 240) * 262144 + (b2 - 128) * 4096
                                + (b3 - 128) * 64 + (b4 - 128),
                      used |-> 4]
        ELSE bad(1)

RECURSIVE LossyFrom(_, _)
LossyFrom(b, i) ==
    IF i > Len(b) THEN <<>>
    ELSE LET d == DecodeAt(b, i)
         IN  <<d.char>> \o LossyFrom(b, i + Min(d.used, Len(b) - i + 1))

\* String::from_utf8_lossy(&data).to_string()
from_utf8_lossy(b) == LossyFrom(b, 1)

(***************************************************************************)
(* str::lines and [String]::join("\n").                                    *)
(***************************************************************************)
LF == 10
CR == 13

RECURSIVE join(_, _)
join(list, sep) ==
    IF list = <<>> THEN <<>>
    ELSE IF Len(list) = 1 THEN list[1]
    ELSE list[1] \o sep \o join(Tail(list), sep)

\* position of the first LF of s at or after i, 0 when there is none
RECURSIVE FindLF(_, _)
FindLF(s, i) ==
    IF i > Len(s) THEN 0 ELSE IF s[i] = LF THEN i ELSE FindLF(s, i + 1)

StripCR(l) ==
    IF l # <<>> /\ l[Len(l)] = CR THEN SubSeq(l, 1, Len(l) - 1) ELSE l

\* str::lines: split after every LF; a line that ends in LF loses it and a
\* CR before it; the text after the last LF is a line when it is not empty
RECURSIVE lines(_)
lines(s) ==
    IF s = <<>> THEN <<>>
    ELSE LET k == FindLF(s, 1)
         IN  IF k = 0 THEN <<s>>
             ELSE <<StripCR(SubSeq(s, 1, k - 1))>> \o lines(SubSeq(s, k + 1, Len(s)))

(***************************************************************************)
(* Atoms.                                                                  *)
(***************************************************************************)
\* AtomEnum::NONE
NONE == 0

\* the names Atoms::new interns at construction, in declaration order
AtomNames ==
    << "CLIPBOARD", "CLIPBOARD_MANAGER", "PROPERTY", "SAVE_TARGETS", "TARGETS",
       "ATOM", "INCR", "TIMESTAMP", "MULTIPLE", "UTF8_STRING",
       "text/plain;charset=utf-8", "text/plain;charset=UTF-8", "STRING", "TEXT",
       "text/plain", "text/rtf", "text/richtext", "text/html", "image/png",
       "text/uri-list", "x-special/gnome-copied-files",
       "x-special/nautilus-clipboard" >>

\* the atom a table gives a name, NONE when the name is not interned
AtomIn(tab, name) ==
    IF \E i \in 1..Len(tab) : tab[i] = name
    THEN CHOOSE i \in 1..Len(tab) : tab[i] = name
    ELSE NONE

atoms ==
    [ CLIPBOARD          |-> AtomIn(AtomNames, "CLIPBOARD"),
      CLIPBOARD_MANAGER  |-> AtomIn(AtomNames, "CLIPBOARD_MANAGER"),
      PROPERTY           |-> AtomIn(AtomNames, "PROPERTY"),
      SAVE_TARGETS       |-> AtomIn(AtomNames, "SAVE_TARGETS"),
      TARGETS            |-> AtomIn(AtomNames, "TARGETS"),
      ATOM               |-> AtomIn(AtomNames, "ATOM"),
      INCR               |-> AtomIn(AtomNames, "INCR"),
      TIMESTAMP          |-> AtomIn(AtomNames, "TIMESTAMP"),
      MULTIPLE           |-> AtomIn(AtomNames, "MULTIPLE"),
      UTF8_STRING        |-> AtomIn(AtomNames, "UTF8_STRING"),
      RTF                |-> AtomIn(AtomNames, "text/rtf"),
      HTML               |-> AtomIn(AtomNames, "text/html"),
      PNG_MIME           |-> AtomIn(AtomNames, "image/png"),
      FILE_LIST          |-> AtomIn(AtomNames, "text/uri-list"),
      GNOME_COPY_FILES   |-> AtomIn(AtomNames, "x-special/gnome-copied-files"),
      NAUTILUS_FILE_LIST |-> AtomIn(AtomNames, "x-special/nautilus-clipboard") ]

\* InnerContext::new: the atoms available_formats leaves out
ignore_formats ==
    <<atoms.TIMESTAMP, atoms.MULTIPLE, atoms.TARGETS, atoms.SAVE_TARGETS>>

\* a 32-bit value in the connection's (native, little-endian) byte order
U32Bytes(a) ==
    <<a % 256, (a \div 256) % 256, (a \div 65536) % 256, (a \div 16777216) % 256>>

\* change_property32: the bytes of a list of 32-bit values
Bytes32(list) == Flatten([i \in 1..Len(list) |-> U32Bytes(list[i])])

U32FromBytes(c) == c[1] + 256 * c[2] + 65536 * c[3] + 16777216 * c[4]

\* parse_atom_list: data.chunks(4), each copied into a [u8; 4]; copy_from_slice
\* panics when the last chunk is shorter than 4 bytes
parse_atom_list(data) ==
    [ panic |-> Len(data) % 4 # 0,
      list  |-> [i \in 1..(Len(data) \div 4) |->
                    U32FromBytes(SubSeq(data, 4 * i - 3, 4 * i))] ]

(***************************************************************************)
(* File lists.                                                             *)
(***************************************************************************)
\* "file://"
FILE_PATH_PREFIX == <<102, 105, 108, 101, 58, 47, 47>>

\* "copy\n"
CopyLine == <<99, 111, 112, 121, 10>>

ClipboardData(format, data) == [format |-> format, data |-> data]

UriListOnly(file_list) ==
    << ClipboardData(atoms.FILE_LIST, as_bytes(join(file_list, <<LF>>))) >>

file_uri_list_to_clipboard_data(file_list) ==
    LET uri_list ==
            join([i \in 1..Len(file_list) |->
                    IF StartsWith(file_list[i], FILE_PATH_PREFIX)
                    THEN file_list[i]
                    ELSE FILE_PATH_PREFIX \o file_list[i]], <<LF>>)
        text_uri_list_data == as_bytes(uri_list)
        gnome_copied_files_data == CopyLine \o as_bytes(uri_list)
    IN  << ClipboardData(atoms.FILE_LIST, text_uri_list_data),
           ClipboardData(atoms.GNOME_COPY_FILES, gnome_copied_files_data),
           ClipboardData(atoms.NAUTILUS_FILE_LIST, gnome_copied_files_data) >>

\* get_files, the closure applied to the bytes read for text/uri-list
FilesOfBytes(data) ==
    LET ls == lines(from_utf8_lossy(data))
        keep(l) == StartsWith(l, FILE_PATH_PREFIX)
    IN  SelectSeq(ls, keep)

(***************************************************************************)
(* State.                                                                  *)
(***************************************************************************)
VARIABLES
    wait_write_data,  \* InnerContext.wait_write_data: the payload, a list of ClipboardData
    owner,            \* X server: who owns CLIPBOARD: "none", "self" (the window of
                      \*   server_for_write) or "peer" (another participant)
    atom_table,       \* X server: the interned atom names, atom i is atom_table[i]
    write_events,     \* events queued on server_for_write.conn, read by the responder
    read_events,      \* events queued on server.conn, read by process_event
    property,         \* X server: the PROPERTY property of the reader's window
    sequence,         \* conversion requests sent so far on server.conn
    call,             \* per application thread: the API call in progress or last returned
    prev,             \* per application thread: the call completed before that one
    peer,             \* the other participant: its offer, its pending requests, its
                      \*   incremental transfer, and what it last read from us
    menu,             \* the calls the application makes
    responder,        \* the thread in process_server_req: "running", "stopped"
                      \*   (it left the loop on DestroyNotify) or "failed" (it
                      \*   returned an error)
    handlers,         \* ClipboardWatcherContext.handlers
    stop_channel,     \* messages queued on the stop_signal/stop_receiver channel
    tokens,           \* WatcherShutdown values alive (not yet stopped or dropped)
    issued,           \* WatcherShutdown values handed out so far
    watch,            \* the thread in start_watch: its position and what it has done
    xfixes_events     \* events queued on the watcher's connection

vars == << wait_write_data, owner, atom_table, write_events, read_events, property,
           sequence, call, prev, peer, menu, responder,
           handlers, stop_channel, tokens, issued, watch, xfixes_events >>

clipVars == << wait_write_data, owner, atom_table, write_events, read_events,
               property, sequence, call, prev, peer, menu, responder >>

watchVars == << handlers, stop_channel, tokens, issued, watch, xfixes_events >>

(***************************************************************************)
(* The X server's side of the requests the code sends.                     *)
(***************************************************************************)
\* u32::MAX, the long_length process_event asks for.  TLC's integers are
\* 32-bit signed: the model uses the largest it has, far above any length
\* of the model as u32::MAX is above any property length.
U32_MAX == 2147483647

NoProperty == [exists |-> FALSE, type |-> NONE, value |-> <<>>]

Property(type, value) == [exists |-> TRUE, type |-> type, value |-> value]

\* InternAtom with only_if_exists = false
InternTable(tab, name) == IF AtomIn(tab, name) # NONE THEN tab ELSE Append(tab, name)

\* GetProperty on a window's property `p`, named by atom `name`
\* (X11 protocol, GetProperty): a BadAtom error for the atom None; type None
\* for a property that does not exist; the actual type, the length and no
\* value when the type asked for is another one; else the bytes from
\* 4*long_offset, at most 4*long_length of them, and the property deleted
\* when `delete` is set and nothing remains after them.
get_property(delete, p, name, type, long_offset, long_length) ==
    IF name = NONE THEN
        [error |-> TRUE, type_ |-> NONE, value |-> <<>>, bytes_after |-> 0, after |-> p]
    ELSE IF ~p.exists THEN
        [error |-> FALSE, type_ |-> NONE, value |-> <<>>, bytes_after |-> 0, after |-> p]
    ELSE IF type # NONE /\ type # p.type THEN
        [error |-> FALSE, type_ |-> p.type, value |-> <<>>,
         bytes_after |-> Len(p.value), after |-> p]
    ELSE
        LET n == Len(p.value)
            i == 4 * long_offset
            t == n - i
            l == IF long_length >= t THEN t ELSE Min(t, 4 * long_length)
            a == n - (i + l)
        IN  IF t < 0 THEN
                [error |-> TRUE, type_ |-> NONE, value |-> <<>>, bytes_after |-> 0,
                 after |-> p]
            ELSE
                [error |-> FALSE, type_ |-> p.type,
                 value |-> SubSeq(p.value, i + 1, i + l), bytes_after |-> a,
                 after |-> IF delete /\ a = 0 THEN NoProperty ELSE p]

\* events on the reader's connection carry the number of the last request
\* the server has processed on it.  The model numbers a connection's
\* conversion requests only: process_event compares an event's number with
\* the number of its read's convert_selection, the first request of the read.
SelectionNotify(seq, target, prop) ==
    [type |-> "SelectionNotify", seq |-> seq, selection |-> atoms.CLIPBOARD,
     target |-> target, property |-> prop, state |-> ""]

PropertyNotify(seq, state) ==
    [type |-> "PropertyNotify", seq |-> seq, selection |-> NONE,
     target |-> NONE, property |-> atoms.PROPERTY, state |-> state]

SelectionRequest(requestor, target) ==
    [type |-> "SelectionRequest", requestor |-> requestor,
     selection |-> atoms.CLIPBOARD, target |-> target, property |-> atoms.PROPERTY]

SelectionClear(selection) ==
    [type |-> "SelectionClear", requestor |-> "none",
     selection |-> selection, target |-> NONE, property |-> NONE]

(***************************************************************************)
(* The facade's values.                                                    *)
(***************************************************************************)
\* ContentFormat: Text, Rtf, Html, Image, Files, Other(name)
Format(kind) == [kind |-> kind, name |-> ""]
Other(name) == [kind |-> "Other", name |-> name]

\* ClipboardContent: Text(s), Rtf(s), Html(s), Files(list), Other(name, bytes)
Content(kind, value) == [kind |-> kind, name |-> "", value |-> value]
OtherContent(name, bytes) == [kind |-> "Other", name |-> name, value |-> bytes]

\* Result<T>: Ok(v) or Err(e).  The code's errors are boxed messages; the
\* model names them by where they arise: "ProtocolError" an error reply of
\* the X server to a request (the `?` on a reply), "TypeMismatch"
\* ("Clipboard data type mismatch"), "OwnershipError" ("Failed to take
\* ownership of the clipboard").  "Panic" is a thread that aborted.
Ok(v) == [kind |-> "Ok", err |-> "", val |-> v]
Err(e) == [kind |-> "Err", err |-> e, val |-> <<>>]
Panic == [kind |-> "Panic", err |-> "", val |-> <<>>]

\* the atom `has` looks for, and the one the typed getters read
FormatAtom(f, tab) ==
    CASE f.kind = "Text"  -> atoms.UTF8_STRING
      [] f.kind = "Rtf"   -> atoms.RTF
      [] f.kind = "Html"  -> atoms.HTML
      [] f.kind = "Image" -> atoms.PNG_MIME
      [] f.kind = "Files" -> atoms.FILE_LIST
      [] OTHER            -> AtomIn(InternTable(tab, f.name), f.name)

\* XServerContext::get_atom_name, "Unknown" when the server knows no such atom
get_atom_name(tab, atom) ==
    IF atom >= 1 /\ atom <= Len(tab) THEN tab[atom] ELSE "Unknown"

EveryOp ==
    {"clear", "set_text", "set_rich_text", "set_html", "set_files", "set_buffer",
     "set_image", "set", "get_text", "get_rich_text", "get_html"}

WriteOps == {"clear", "set_text", "set_rich_text", "set_html", "set_files",
             "set_buffer", "set_image", "set"}

TextGetters == {"get_text", "get_rich_text", "get_html"}

\* the names get_atom is called with while the ClipboardData of a call are built
RECURSIVE OtherNames(_)
OtherNames(contents) ==
    IF contents = <<>> THEN <<>>
    ELSE (IF Head(contents).kind = "Other" THEN <<Head(contents).name>> ELSE <<>>)
         \o OtherNames(Tail(contents))

RECURSIVE InternAll(_, _)
InternAll(tab, names) ==
    IF names = <<>> THEN tab
    ELSE InternAll(InternTable(tab, Head(names)), Tail(names))

\* RustImageData::to_png: the PNG bytes of the image, an error for the empty
\* image (data: None); an image is kept as its PNG bytes, the empty one as <<>>
to_png(image) == IF image = <<>> THEN Err("image is empty") ELSE Ok(image)

\* XServerContext::get_atom: InternAtom(only_if_exists = false), which fails
\* when the server cannot store one more name
get_atom(tab, name) ==
    IF Contains(tab, name) \/ Len(tab) < MaxAtoms
    THEN Ok(AtomIn(InternTable(tab, name), name))
    ELSE Err("ProtocolError")

\* the entries set, set_image and set_buffer convert before they call write
Conversions(op, arg) ==
    CASE op = "set"        -> arg
      [] op = "set_image"  -> << Content("Image", arg) >>
      [] op = "set_buffer" -> << OtherContent(arg.name, arg.value) >>
      [] OTHER             -> <<>>

NoConvertError(contents, tab) == [err |-> "", tab |-> tab]

\* the `?` on to_png and on get_atom, entry by entry: the error of the first
\* entry that fails ("" when none does) and the atoms interned until then
RECURSIVE ConvertError(_, _)
ConvertError(contents, tab) ==
    IF contents = <<>> THEN [err |-> "", tab |-> tab]
    ELSE LET c == Head(contents)
         IN  IF c.kind = "Image" /\ to_png(c.value).kind = "Err"
             THEN [err |-> to_png(c.value).err, tab |-> tab]
             ELSE IF c.kind = "Other" /\ get_atom(tab, c.name).kind = "Err"
             THEN [err |-> get_atom(tab, c.name).err, tab |-> tab]
             ELSE ConvertError(Tail(contents),
                               IF c.kind = "Other" THEN InternTable(tab, c.name)
                               ELSE tab)

\* set: the ClipboardData pushed for one ClipboardContent
ContentData(c, tab) ==
    CASE c.kind = "Text"  -> <<ClipboardData(atoms.UTF8_STRING, as_bytes(c.value))>>
      [] c.kind = "Image" -> <<ClipboardData(atoms.PNG_MIME, to_png(c.value).val)>>
      [] c.kind = "Rtf"   -> <<ClipboardData(atoms.RTF, as_bytes(c.value))>>
      [] c.kind = "Html"  -> <<ClipboardData(atoms.HTML, as_bytes(c.value))>>
      [] c.kind = "Files" -> file_uri_list_to_clipboard_data(c.value)
      [] OTHER            -> <<ClipboardData(AtomIn(tab, c.name), c.value)>>

WriteDataFirst(op, arg, tab) ==
    IF op = "set" THEN ContentData(arg[1], tab)
    ELSE <<ClipboardData(atoms.UTF8_STRING, as_bytes(arg))>>

\* the Vec<ClipboardData> a writing call hands to write; `tab` already holds
\* the names the call interned
WriteData(op, arg, tab) ==
    CASE op = "clear"         -> <<>>
      [] op = "set_text"      -> <<ClipboardData(atoms.UTF8_STRING, as_bytes(arg))>>
      [] op = "set_rich_text" -> <<ClipboardData(atoms.RTF, as_bytes(arg))>>
      [] op = "set_html"      -> <<ClipboardData(atoms.HTML, as_bytes(arg))>>
      [] op = "set_files"     -> file_uri_list_to_clipboard_data(arg)
      [] op = "set_buffer"    -> <<ClipboardData(AtomIn(tab, arg.name), arg.value)>>
      [] op = "set_image"     -> <<ClipboardData(atoms.PNG_MIME, to_png(arg).val)>>
      [] OTHER                -> Flatten([i \in 1..Len(arg) |-> ContentData(arg[i], tab)])

WriteNames(op, arg) ==
    CASE op = "set_buffer" -> <<arg.name>>
      [] op = "set"        -> OtherNames(arg)
      [] OTHER             -> <<>>

\* the format a reading call converts the selection to
ReadFormat(op, arg, idx) ==
    CASE op \in {"has", "available_formats"} -> Other("TARGETS")
      [] op = "get_buffer"    -> Other(arg)
      [] op = "get_text"      -> Format("Text")
      [] op = "get_rich_text" -> Format("Rtf")
      [] op = "get_html"      -> Format("Html")
      [] op = "get_files"     -> Format("Files")
      [] op = "get_image"     -> Format("Image")
      [] OTHER                -> arg[idx]

\* the conversion requests a call sends
Reads(op, arg) ==
    IF op \in WriteOps THEN 0 ELSE IF op = "get" THEN Len(arg) ELSE 1

\* what each reading operation makes of the Result<Vec<u8>> of read
has(format, outcome, tab) ==
    IF outcome.kind = "Err" THEN Ok(FALSE)
    ELSE LET formats == parse_atom_list(outcome.val)
         IN  IF formats.panic THEN Panic
             ELSE Ok(Contains(formats.list, FormatAtom(format, tab)))

available_formats(outcome, tab) ==
    IF outcome.kind = "Err" THEN outcome
    ELSE LET atom_list == parse_atom_list(outcome.val)
             keep(a) == ~Contains(ignore_formats, a)
             kept == SelectSeq(atom_list.list, keep)
         IN  IF atom_list.panic THEN Panic
             ELSE Ok([i \in 1..Len(kept) |-> get_atom_name(tab, kept[i])])

get_string(outcome) ==
    IF outcome.kind = "Err" THEN Ok(<<>>) ELSE Ok(from_utf8_lossy(outcome.val))

get_files(outcome) ==
    IF outcome.kind = "Err" THEN Ok(<<>>) ELSE Ok(FilesOfBytes(outcome.val))

\* RustImageData::from_bytes: image::load_from_memory, which refuses bytes it
\* does not recognise as an image; an image is kept as its PNG bytes, which
\* begin with the PNG signature
PngSignature == << 137, 80 >>

from_bytes(bytes) ==
    IF StartsWith(bytes, PngSignature) THEN Ok(bytes) ELSE Err("Invalid image data")

get_image(outcome) ==
    IF outcome.kind = "Err" THEN Err("No image data found") ELSE from_bytes(outcome.val)

OpResult(op, arg, outcome, tab) ==
    CASE op = "has"               -> has(arg, outcome, tab)
      [] op = "available_formats" -> available_formats(outcome, tab)
      [] op \in TextGetters       -> get_string(outcome)
      [] op = "get_files"         -> get_files(outcome)
      [] op = "get_image"         -> get_image(outcome)
      [] OTHER                    -> outcome

\* get: what one requested format adds to `contents`
GetEntry(f, outcome) ==
    CASE f.kind \in {"Text", "Rtf", "Html"} ->
            <<Content(f.kind, get_string(outcome).val)>>
      [] f.kind = "Files" -> <<Content("Files", get_files(outcome).val)>>
      [] f.kind = "Image" ->
            IF get_image(outcome).kind = "Ok"
            THEN <<Content("Image", get_image(outcome).val)>> ELSE <<>>
      [] OTHER ->
            IF outcome.kind = "Ok" THEN <<OtherContent(f.name, outcome.val)>> ELSE <<>>

(***************************************************************************)
(* An application thread: one API call at a time.                          *)
(***************************************************************************)
NoCall ==
    [pc |-> "idle", op |-> "none", arg |-> <<>>, res |-> Ok(<<>>),
     data |-> <<>>, target |-> NONE, buff |-> <<>>, is_incr |-> FALSE,
     sequence_num |-> 0, negative |-> FALSE, idx |-> 0, contents |-> <<>>]

\* what is kept of a returned call
Returned(c) ==
    [op |-> c.op, arg |-> c.arg, res |-> c.res, is_incr |-> c.is_incr,
     negative |-> c.negative]

\* a call is entered: a writing call builds its data (interning the names
\* of custom formats on server_for_write) and returns at once with the error
\* of an entry that cannot be converted; a reading call resolves its target
Call(t) ==
    \E c \in menu :
        /\ call[t].pc = "idle"
        /\ sequence + Reads(c.op, c.arg) <= MaxReads
        /\ prev' = [prev EXCEPT ![t] = Returned(call[t])]
        /\ IF c.op \in WriteOps /\ ConvertError(Conversions(c.op, c.arg), atom_table).err # ""
           THEN
               LET failed == ConvertError(Conversions(c.op, c.arg), atom_table)
               IN  /\ atom_table' = failed.tab
                   /\ call' = [call EXCEPT ![t] =
                         [NoCall EXCEPT !.op = c.op, !.arg = c.arg,
                                        !.res = Err(failed.err)]]
           ELSE IF c.op \in WriteOps THEN
               LET tab == InternAll(atom_table, WriteNames(c.op, c.arg))
               IN  /\ atom_table' = tab
                   /\ call' = [call EXCEPT ![t] =
                         [NoCall EXCEPT !.pc = "replace", !.op = c.op, !.arg = c.arg,
                                        !.data = WriteData(c.op, c.arg, tab)]]
           ELSE
               LET f == ReadFormat(c.op, c.arg, 1)
               IN  /\ atom_table' = IF f.kind = "Other"
                                    THEN InternTable(atom_table, f.name)
                                    ELSE atom_table
                   /\ call' = [call EXCEPT ![t] =
                         [NoCall EXCEPT !.pc = "convert", !.op = c.op, !.arg = c.arg,
                                        !.idx = 1,
                                        !.target = FormatAtom(f, atom_table)]]
        /\ UNCHANGED << wait_write_data, owner, write_events, read_events, property,
                        sequence, peer, menu, responder, watchVars >>

\* ClipboardContext::write, first step: under the write lock, clear the
\* stored list and extend it with the new data
ReplaceWithoutClear(old, data) == old \o data

Replace(old, data) == data

WriteReplace(t) ==
    /\ call[t].pc = "replace"
    /\ wait_write_data' = Replace(wait_write_data, call[t].data)
    /\ call' = [call EXCEPT ![t].pc = "claim"]
    /\ UNCHANGED << owner, atom_table, write_events, read_events, property,
                    sequence, prev, peer, menu, responder, watchVars >>

\* write, second step: set_selection_owner(win_id, CLIPBOARD).  The X server
\* sends SelectionClear to the previous owner when that is another window.
WriteClaim(t) ==
    /\ call[t].pc = "claim"
    /\ owner' = "self"
    /\ call' = [call EXCEPT ![t].pc = "verify"]
    /\ UNCHANGED << wait_write_data, atom_table, write_events, read_events,
                    property, sequence, prev, peer, menu, responder, watchVars >>

\* write, last step: get_selection_owner(CLIPBOARD) and the comparison with
\* win_id
VerifyOwnerAlwaysOk(o) == Ok(<<>>)

VerifyOwner(o) == IF o = "self" THEN Ok(<<>>) ELSE Err("OwnershipError")

WriteVerify(t) ==
    /\ call[t].pc = "verify"
    /\ call' = [call EXCEPT ![t] =
                   [NoCall EXCEPT !.op = call[t].op, !.arg = call[t].arg,
                                  !.res = VerifyOwner(owner)]]
    /\ UNCHANGED << wait_write_data, owner, atom_table, write_events, read_events,
                    property, sequence, prev, peer, menu, responder, watchVars >>

(***************************************************************************)
(* ClipboardContext::read and InnerContext::process_event.                 *)
(***************************************************************************)
\* DeleteProperty reports only a property that existed
DeleteEvents(before) == IF before.exists THEN <<PropertyNotify(sequence, "Delete")>> ELSE <<>>

\* read, first step: convert_selection(win_id, CLIPBOARD, format, PROPERTY)
\* and its sequence number.  The server passes the request on to the owner
\* of the selection, or refuses it itself when nobody owns it.
ReadConvert(t) ==
    LET c == call[t]
        req == SelectionRequest("reader", c.target)
    IN  /\ c.pc = "convert"
        /\ sequence' = sequence + 1
        /\ call' = [call EXCEPT ![t] = [c EXCEPT !.pc = "events",
                                                 !.sequence_num = sequence + 1,
                                                 !.buff = <<>>, !.is_incr = FALSE]]
        /\ write_events' = IF owner = "self" THEN Append(write_events, req)
                           ELSE write_events
        /\ peer' = IF owner = "peer"
                   THEN [peer EXCEPT !.requests = Append(peer.requests, req)]
                   ELSE peer
        /\ read_events' = IF owner = "none"
                          THEN Append(read_events,
                                      SelectionNotify(sequence + 1, c.target, NONE))
                          ELSE read_events
        /\ UNCHANGED << wait_write_data, owner, atom_table, property, prev, menu, responder,
                        watchVars >>

\* `read` returns `outcome` to the operation that called it, which returns
\* its own result or, in get, goes on to the next requested format
Complete(t, outcome, negative) ==
    LET c == call[t]
    IN  IF c.op = "get" THEN
            LET contents == c.contents \o GetEntry(c.arg[c.idx], outcome)
            IN  IF c.idx < Len(c.arg) THEN
                    LET f == c.arg[c.idx + 1]
                    IN  /\ atom_table' = IF f.kind = "Other"
                                         THEN InternTable(atom_table, f.name)
                                         ELSE atom_table
                        /\ call' = [call EXCEPT ![t] =
                              [c EXCEPT !.pc = "convert", !.idx = c.idx + 1,
                                        !.contents = contents,
                                        !.target = FormatAtom(f, atom_table),
                                        !.buff = <<>>, !.is_incr = FALSE,
                                        !.sequence_num = 0]]
                ELSE
                    /\ atom_table' = atom_table
                    /\ call' = [call EXCEPT ![t] =
                          [NoCall EXCEPT !.op = c.op, !.arg = c.arg,
                                         !.res = Ok(contents)]]
        ELSE
            /\ atom_table' =
                  IF /\ c.op = "has"
                     /\ c.arg.kind = "Other"
                     /\ outcome.kind = "Ok"
                     /\ ~parse_atom_list(outcome.val).panic
                  THEN InternTable(atom_table, c.arg.name)
                  ELSE atom_table
            /\ call' = [call EXCEPT ![t] =
                  [NoCall EXCEPT !.op = c.op, !.arg = c.arg,
                                 !.res = OpResult(c.op, c.arg, outcome, atom_table),
                                 !.is_incr = c.is_incr, !.negative = negative]]

\* buff.extend_from_slice(&value)
ExtendKeepsLast(buff, value) == value

ExtendInFront(buff, value) == value \o buff

Extend(buff, value) == buff \o value

NeverStale(seq, sequence_number) == FALSE

\* `if seq < sequence_number { continue; }`
Stale(seq, sequence_number) == seq < sequence_number

\* the timeout read passes to process_event
ReadTimeout == "None"

ExpiredWhenLate(timeout, late) == late

\* the check at the head of the loop of process_event: a timeout was given
\* and at least that much time has passed since the start
Expired(timeout, late) == timeout # "None" /\ late

\* process_event, one turn of its loop: the timeout check, then an event to
\* take (with none, the thread parks and polls again); `late` is what the
\* clock says.  Returns of process_event with an error return from read at
\* once, without the delete_property.
ReadEvent(t) ==
    LET c == call[t]
        e == Head(read_events)
        rest == Tail(read_events)
        skip == /\ read_events' = rest
                /\ UNCHANGED << property, call, atom_table >>
    IN  /\ c.pc = "events"
        /\ UNCHANGED << wait_write_data, owner, write_events, sequence, prev, peer,
                        menu, responder, watchVars >>
        /\ \E late \in BOOLEAN :
           IF Expired(ReadTimeout, late) THEN
               /\ UNCHANGED << read_events, property >>
               /\ Complete(t, Err("Timeout"), FALSE)
           ELSE IF read_events = <<>> THEN FALSE
           ELSE IF Stale(e.seq, c.sequence_num) THEN skip
           ELSE IF e.type = "SelectionNotify" THEN
               IF e.selection # atoms.CLIPBOARD THEN skip
               ELSE
                   LET target_type == IF c.target = atoms.TARGETS THEN atoms.ATOM
                                      ELSE c.target
                       reply == get_property(FALSE, property, e.property, target_type,
                                             Len(c.buff), U32_MAX)
                   IN  IF reply.error THEN
                           /\ read_events' = rest
                           /\ property' = property
                           /\ Complete(t, Err("ProtocolError"), e.property = NONE)
                       ELSE IF reply.type_ = atoms.INCR THEN
                           /\ property' = NoProperty
                           /\ read_events' = rest \o DeleteEvents(property)
                           /\ call' = [call EXCEPT ![t].is_incr = TRUE]
                           /\ atom_table' = atom_table
                       ELSE IF reply.type_ # c.target /\ reply.type_ # atoms.ATOM THEN
                           /\ read_events' = rest
                           /\ property' = property
                           /\ Complete(t, Err("TypeMismatch"), FALSE)
                       ELSE
                           /\ read_events' = rest
                           /\ property' = property
                           /\ call' = [call EXCEPT ![t].buff = Extend(c.buff, reply.value),
                                                   ![t].pc = "delete"]
                           /\ atom_table' = atom_table
           ELSE IF e.type = "PropertyNotify" /\ c.is_incr THEN
               IF e.state # "NewValue" THEN skip
               ELSE
                   LET length == get_property(FALSE, property, atoms.PROPERTY,
                                              atoms.ATOM, 0, 0).bytes_after
                       reply == get_property(TRUE, property, atoms.PROPERTY, NONE, 0,
                                             length)
                   IN  /\ property' = reply.after
                       /\ read_events' =
                             rest \o (IF reply.after # property
                                      THEN DeleteEvents(property) ELSE <<>>)
                       /\ atom_table' = atom_table
                       /\ IF reply.type_ # c.target THEN call' = call
                          ELSE IF reply.value # <<>>
                          THEN call' = [call EXCEPT ![t].buff = Extend(c.buff, reply.value)]
                          ELSE call' = [call EXCEPT ![t].pc = "delete"]
           ELSE skip

\* read, last step: delete_property(win_id, PROPERTY), then Ok(buff)
ReadDelete(t) ==
    /\ call[t].pc = "delete"
    /\ property' = NoProperty
    /\ read_events' = read_events \o DeleteEvents(property)
    /\ Complete(t, Ok(call[t].buff), FALSE)
    /\ UNCHANGED << wait_write_data, owner, write_events, sequence, prev, peer, menu, responder,
                    watchVars >>

(***************************************************************************)
(* The responder thread: process_server_req.                               *)
(***************************************************************************)
\* the first entry of the payload with the format asked for, <<>> when none
FindData(data_list, target) ==
    LET hit(d) == d.format = target
        hits == SelectSeq(data_list, hit)
    IN  IF hits = <<>> THEN <<>> ELSE <<hits[1]>>

TargetsButLast(data_list) ==
    <<atoms.TARGETS, atoms.SAVE_TARGETS>>
        \o [i \in 1..(Len(data_list) - 1) |-> data_list[i].format]

TargetsFirstOnly(data_list) ==
    <<atoms.TARGETS, atoms.SAVE_TARGETS>>
        \o [i \in 1..(IF data_list = <<>> THEN 0 ELSE 1) |-> data_list[i].format]

\* the list written back for TARGETS
Targets(data_list) ==
    <<atoms.TARGETS, atoms.SAVE_TARGETS>>
        \o [i \in 1..Len(data_list) |-> data_list[i].format]

\* change_property8 returns a connection error, with nothing sent, when the
\* request does not fit the maximum request length
TooLong(data) == Len(data) > MaxRequestBytes

\* handle_selection_request: what is written to the requestor's property
\* (under the read lock on the payload) and the property named in the
\* SelectionNotify sent afterwards; with `error` the function has returned
\* Err at the change_property, nothing written and no SelectionNotify sent
handle_selection_request(data_list, event) ==
    IF event.target = atoms.TARGETS THEN
        [error |-> FALSE, success |-> TRUE, type |-> atoms.ATOM,
         value |-> Bytes32(Targets(data_list)), property |-> event.property]
    ELSE
        LET found == FindData(data_list, event.target)
        IN  IF found = <<>>
            THEN [error |-> FALSE, success |-> FALSE, type |-> NONE, value |-> <<>>,
                  property |-> NONE]
            ELSE IF TooLong(found[1].data)
            THEN [error |-> TRUE, success |-> FALSE, type |-> NONE, value |-> <<>>,
                  property |-> NONE]
            ELSE [error |-> FALSE, success |-> TRUE, type |-> event.target,
                  value |-> found[1].data, property |-> event.property]

\* the reply as it reaches a requestor: the reader's window and connection,
\* or the other participant
Deliver(requestor, target, reply) ==
    IF requestor = "reader" THEN
        /\ property' = IF reply.success THEN Property(reply.type, reply.value)
                       ELSE property
        /\ read_events' =
              read_events
                \o (IF reply.success THEN <<PropertyNotify(sequence, "NewValue")>>
                    ELSE <<>>)
                \o <<SelectionNotify(sequence, target, reply.property)>>
        /\ peer' = peer
    ELSE
        /\ peer' = [peer EXCEPT !.asking = FALSE,
                                !.got = [target |-> target, property |-> reply.property,
                                         type |-> reply.type, value |-> reply.value]]
        /\ UNCHANGED << property, read_events >>

\* Event::SelectionClear: the stored list after the event
OnAnySelectionClear(selection, data_list) == <<>>

OnSelectionClear(selection, data_list) ==
    IF selection = atoms.CLIPBOARD THEN <<>> ELSE data_list

\* one turn of the loop of process_server_req; the loop is left on
\* DestroyNotify (break) and on the first error (the ? operators)
ProcessServerReq ==
    LET e == Head(write_events)
        reply == handle_selection_request(wait_write_data, e)
    IN  /\ responder = "running"
        /\ write_events # <<>>
        /\ write_events' = Tail(write_events)
        /\ UNCHANGED << owner, atom_table, sequence, call, prev, menu, watchVars >>
        /\ IF e.type = "DestroyNotify" THEN
               /\ responder' = "stopped"
               /\ UNCHANGED << wait_write_data, property, read_events, peer >>
           ELSE IF e.type = "SelectionClear" THEN
               /\ wait_write_data' = OnSelectionClear(e.selection, wait_write_data)
               /\ UNCHANGED << property, read_events, peer, responder >>
           ELSE IF e.type = "SelectionRequest" THEN
               IF reply.error THEN
                   /\ responder' = "failed"
                   /\ UNCHANGED << wait_write_data, property, read_events, peer >>
               ELSE
                   /\ Deliver(e.requestor, e.target, reply)
                   /\ UNCHANGED << wait_write_data, responder >>
           ELSE UNCHANGED << wait_write_data, property, read_events, peer, responder >>

(***************************************************************************)
(* The other participant: an ICCCM client that claims CLIPBOARD with an    *)
(* offer of its own, answers conversion requests (directly, or by an INCR  *)
(* transfer), and reads the selection while this process owns it.          *)
(***************************************************************************)
\* what the other participant offers: "pé", three bytes of image data (the
\* PNG signature and one more) and
\* one file URI ("file:///p"), sent directly or by INCR transfers
PeerText == <<112, 233>>
PeerBig == <<137, 80, 3>>
PeerFiles == << FILE_PATH_PREFIX \o <<47, 112>> >>

PeerEntries ==
    << ClipboardData(atoms.UTF8_STRING, as_bytes(PeerText)),
       ClipboardData(atoms.PNG_MIME, PeerBig),
       ClipboardData(atoms.FILE_LIST, as_bytes(join(PeerFiles, <<LF>>))) >>

PeerOffers == { [entries |-> PeerEntries, incr |-> b] : b \in BOOLEAN }

NoTransfer == [active |-> FALSE, target |-> NONE, value |-> <<>>, rest |-> <<>>]

NoReply == [target |-> NONE, property |-> NONE, type |-> NONE, value |-> <<>>]

PeerIdle ==
    [offer |-> [entries |-> <<>>, incr |-> FALSE], requests |-> <<>>,
     xfer |-> NoTransfer, claims |-> 0, asking |-> FALSE, got |-> NoReply,
     sent |-> 0]

\* the targets the other participant asks this process for
PeerTargets == {atoms.TARGETS, atoms.UTF8_STRING}

PeerClaim ==
    \E o \in PeerOffers :
        /\ peer.claims < MaxPeerClaims
        /\ owner' = "peer"
        /\ write_events' = IF owner = "self"
                           THEN Append(write_events, SelectionClear(atoms.CLIPBOARD))
                           ELSE write_events
        /\ peer' = [peer EXCEPT !.offer = o, !.claims = peer.claims + 1]
        /\ UNCHANGED << wait_write_data, atom_table, read_events, property, sequence,
                        call, prev, menu, responder, watchVars >>

PeerAnswer ==
    LET e == Head(peer.requests)
        found == FindData(peer.offer.entries, e.target)
        formats == [i \in 1..Len(peer.offer.entries) |-> peer.offer.entries[i].format]
        answered == [peer EXCEPT !.requests = Tail(peer.requests)]
        written(p) ==
            /\ property' = p
            /\ read_events' = read_events
                  \o <<PropertyNotify(sequence, "NewValue"),
                       SelectionNotify(sequence, e.target, e.property)>>
    IN  /\ peer.requests # <<>>
        /\ UNCHANGED << wait_write_data, owner, atom_table, write_events, sequence,
                        call, prev, menu, responder, watchVars >>
        /\ IF e.target = atoms.TARGETS THEN
               /\ written(Property(atoms.ATOM,
                     Bytes32(<<atoms.TARGETS, atoms.TIMESTAMP, atoms.MULTIPLE>>
                             \o formats)))
               /\ peer' = answered
           ELSE IF found = <<>> THEN
               /\ property' = property
               /\ read_events' = Append(read_events,
                                        SelectionNotify(sequence, e.target, NONE))
               /\ peer' = answered
           ELSE IF peer.offer.incr THEN
               /\ written(Property(atoms.INCR, Bytes32(<<Len(found[1].data)>>)))
               /\ peer' = [answered EXCEPT !.xfer =
                              [active |-> TRUE, target |-> e.target,
                               value |-> found[1].data, rest |-> found[1].data]]
           ELSE
               /\ written(Property(e.target, found[1].data))
               /\ peer' = answered

\* the sender's side of INCR: once the requestor has deleted the property,
\* write the next chunk, and a zero-length value after the last one
PeerChunk ==
    /\ peer.xfer.active
    /\ ~property.exists
    /\ read_events' = Append(read_events, PropertyNotify(sequence, "NewValue"))
    /\ UNCHANGED << wait_write_data, owner, atom_table, write_events, sequence,
                    call, prev, menu, responder, watchVars >>
    /\ IF peer.xfer.rest = <<>> THEN
           /\ property' = Property(peer.xfer.target, <<>>)
           /\ peer' = [peer EXCEPT !.xfer.active = FALSE]
       ELSE
           \E n \in 1..Min(MaxChunk, Len(peer.xfer.rest)) :
               /\ property' = Property(peer.xfer.target, SubSeq(peer.xfer.rest, 1, n))
               /\ peer' = [peer EXCEPT !.xfer.rest =
                              SubSeq(peer.xfer.rest, n + 1, Len(peer.xfer.rest))]

PeerAsk ==
    \E target \in PeerTargets :
        /\ owner = "self"
        /\ ~peer.asking
        /\ write_events' = Append(write_events, SelectionRequest("peer", target))
        /\ peer' = [peer EXCEPT !.asking = TRUE, !.got = NoReply]
        /\ UNCHANGED << wait_write_data, owner, atom_table, read_events, property,
                        sequence, call, prev, menu, responder, watchVars >>

\* the events that reach the owner window besides those of its own
\* selection, which another client sends to it with SendEvent: a
\* SelectionClear of another selection, a SelectionNotify, a DestroyNotify
ServerEvent(type, selection) == [SelectionClear(selection) EXCEPT !.type = type]

SentEvents ==
    { ServerEvent("SelectionClear", atoms.CLIPBOARD_MANAGER),
      ServerEvent("SelectionNotify", atoms.CLIPBOARD),
      ServerEvent("DestroyNotify", NONE) }

PeerSend ==
    \E e \in SentEvents :
        /\ peer.sent < MaxSent
        /\ write_events' = Append(write_events, e)
        /\ peer' = [peer EXCEPT !.sent = peer.sent + 1]
        /\ UNCHANGED << wait_write_data, owner, atom_table, read_events, property,
                        sequence, call, prev, menu, responder, watchVars >>

\* the types an owner may declare for the property it answers with, other
\* than the target asked for: the generic ATOM type and STRING
ForeignTypes == {atoms.ATOM, AtomIn(AtomNames, "STRING")}

\* what such an owner writes
ForeignValue == <<1, 2, 3, 4>>

\* the other participant answers a conversion request with a property whose
\* declared type is not the target (ICCCM leaves the type to the owner)
PeerAnswerTyped ==
    \E ty \in ForeignTypes :
        LET e == Head(peer.requests)
        IN  /\ peer.requests # <<>>
            /\ ty # e.target
            /\ property' = Property(ty, ForeignValue)
            /\ read_events' = read_events
                  \o <<PropertyNotify(sequence, "NewValue"),
                       SelectionNotify(sequence, e.target, e.property)>>
            /\ peer' = [peer EXCEPT !.requests = Tail(peer.requests)]
            /\ UNCHANGED << wait_write_data, owner, atom_table, write_events, sequence,
                            call, prev, menu, responder, watchVars >>

\* another client sends a SelectionNotify to the reader's window (SendEvent),
\* of CLIPBOARD or of another selection; it carries the number of the last
\* request the server has processed on the reader's connection
PeerNotify ==
    \E selection \in {atoms.CLIPBOARD, atoms.CLIPBOARD_MANAGER} :
        /\ peer.sent < MaxSent
        /\ read_events' =
              Append(read_events,
                     [SelectionNotify(sequence, atoms.TARGETS, NONE)
                        EXCEPT !.selection = selection])
        /\ peer' = [peer EXCEPT !.sent = peer.sent + 1]
        /\ UNCHANGED << wait_write_data, owner, atom_table, write_events, property,
                        sequence, call, prev, menu, responder, watchVars >>

\* the owner answers a TARGETS request with a property of type ATOM whose
\* value it chooses: no atom at all, three bytes, or one atom and a byte more
\* (ChangeProperty takes any number of bytes in format 8)
TargetsValues == { <<>>, <<10, 0, 0>>, <<10, 0, 0, 0, 18>> }

PeerAnswerTargets ==
    \E value \in TargetsValues :
        LET e == Head(peer.requests)
        IN  /\ peer.requests # <<>>
            /\ e.target = atoms.TARGETS
            /\ property' = Property(atoms.ATOM, value)
            /\ read_events' = read_events \o
                   << PropertyNotify(sequence, "NewValue"),
                      SelectionNotify(sequence, e.target, e.property) >>
            /\ peer' = [peer EXCEPT !.requests = Tail(peer.requests)]
            /\ UNCHANGED << wait_write_data, owner, atom_table, write_events, sequence,
                            call, prev, menu, responder, watchVars >>

(***************************************************************************)
(* The change watcher: ClipboardWatcherContext and WatcherShutdown.        *)
(* add_handler and start_watch take &mut self and get_shutdown_channel     *)
(* takes &self: none of them runs while start_watch does.  A               *)
(* WatcherShutdown is stopped or dropped from any thread.                  *)
(***************************************************************************)
NotWatching == watch.pc \in {"idle", "done"}

\* ClipboardWatcherContext::new
InitWatcher ==
    /\ handlers = <<>>
    /\ stop_channel = 0
    /\ tokens = 0
    /\ issued = 0
    /\ watch = [pc |-> "idle", runs |-> 0, waited |-> FALSE, delivered |-> 0,
                handled |-> 0, invoked |-> <<>>]
    /\ xfixes_events = <<>>

\* add_handler: handlers.push(f); the handlers are numbered as they come
AddHandler ==
    /\ NotWatching
    /\ Len(handlers) < MaxHandlers
    /\ handlers' = Append(handlers, Len(handlers) + 1)
    /\ UNCHANGED << stop_channel, tokens, issued, watch, xfixes_events, clipVars >>

\* get_shutdown_channel: a WatcherShutdown around a clone of the sender
GetShutdownChannel ==
    /\ NotWatching
    /\ issued < MaxTokens
    /\ tokens' = tokens + 1
    /\ issued' = issued + 1
    /\ UNCHANGED << handlers, stop_channel, watch, xfixes_events, clipVars >>

\* WatcherShutdown::stop, which drops the token, and Drop::drop, which sends ()
Stop ==
    /\ tokens > 0
    /\ tokens' = tokens - 1
    /\ stop_channel' = stop_channel + 1
    /\ UNCHANGED << handlers, issued, watch, xfixes_events, clipVars >>

\* start_watch up to its loop: a connection of its own, subscribed to the
\* owner changes of CLIPBOARD
StartWatch ==
    /\ NotWatching
    /\ watch.runs < MaxRuns
    /\ watch' = [watch EXCEPT !.pc = "recv", !.runs = watch.runs + 1,
                              !.waited = FALSE, !.handled = 0, !.invoked = <<>>]
    /\ xfixes_events' = <<>>
    /\ UNCHANGED << handlers, stop_channel, tokens, issued, clipVars >>

\* the head of the loop: stop_receiver.recv_timeout(500 ms).is_ok() breaks;
\* with no message within the time the loop goes on to poll
RecvStopIgnored(pending) == "poll"

RecvStopWhenQuiet(pending) ==
    IF pending > 0 /\ xfixes_events = <<>> THEN "done" ELSE "poll"

RecvStopAlways(pending) == "done"

RecvStop(pending) == IF pending > 0 THEN "done" ELSE "poll"

WatchRecv ==
    /\ watch.pc = "recv"
    /\ watch' = [watch EXCEPT !.pc = RecvStop(stop_channel),
                              !.waited = watch.waited \/ stop_channel = 0]
    /\ stop_channel' = IF stop_channel > 0 THEN stop_channel - 1 ELSE stop_channel
    /\ UNCHANGED << handlers, tokens, issued, xfixes_events, clipVars >>

\* handlers.iter_mut().for_each(on_clipboard_change): the handlers called,
\* in the order of the calls
for_each_rev(hs) == [i \in 1..Len(hs) |-> hs[Len(hs) + 1 - i]]

for_each_first(hs) == IF hs = <<>> THEN <<>> ELSE << hs[1] >>

for_each(hs) == hs

\* the rest of the loop body: poll_for_event, and for an XfixesSelectionNotify
\* every handler's on_clipboard_change, in the order of the list; `invoked`
\* is the record of the calls made since start_watch was entered
WatchPoll ==
    /\ watch.pc = "poll"
    /\ IF xfixes_events = <<>> THEN
           /\ watch' = [watch EXCEPT !.pc = "recv"]
           /\ xfixes_events' = xfixes_events
       ELSE
           /\ xfixes_events' = Tail(xfixes_events)
           /\ watch' = IF Head(xfixes_events) = "XfixesSelectionNotify"
                       THEN [watch EXCEPT !.pc = "recv",
                                          !.handled = watch.handled + 1,
                                          !.invoked = watch.invoked
                                                        \o for_each(handlers)]
                       ELSE [watch EXCEPT !.pc = "recv"]
    /\ UNCHANGED << handlers, stop_channel, tokens, issued, clipVars >>

\* the X server reports an event to the watcher's connection
WatchEvent ==
    \E e \in {"XfixesSelectionNotify", "PropertyNotify"} :
        /\ ~NotWatching
        /\ watch.delivered < MaxChanges
        /\ xfixes_events' = Append(xfixes_events, e)
        /\ watch' = [watch EXCEPT !.delivered = watch.delivered + 1]
        /\ UNCHANGED << handlers, stop_channel, tokens, issued, clipVars >>

(***************************************************************************)
(* The clipboard context with one application thread.                      *)
(***************************************************************************)
Threads == {1}

NoReturned == Returned(NoCall)

\* ClipboardContext::new: an empty payload, the atoms interned, the responder
\* thread started; nobody owns CLIPBOARD
InitContext ==
    /\ wait_write_data = <<>>
    /\ owner = "none"
    /\ atom_table = AtomNames
    /\ write_events = <<>>
    /\ read_events = <<>>
    /\ property = NoProperty
    /\ sequence = 0
    /\ call = [t \in Threads |-> NoCall]
    /\ prev = [t \in Threads |-> NoReturned]
    /\ peer = PeerIdle
    /\ responder = "running"

Op(name, arg) == [op |-> name, arg |-> arg]

Next ==
    \/ \E t \in Threads : Call(t)
    \/ \E t \in Threads : WriteReplace(t)
    \/ \E t \in Threads : WriteClaim(t)
    \/ \E t \in Threads : WriteVerify(t)
    \/ \E t \in Threads : ReadConvert(t)
    \/ \E t \in Threads : ReadEvent(t)
    \/ \E t \in Threads : ReadDelete(t)
    \/ ProcessServerReq
    \/ PeerClaim
    \/ PeerAnswer
    \/ PeerChunk
    \/ PeerAsk

(***************************************************************************)
(* The calls the application makes, by the part of the facade exercised.   *)
(***************************************************************************)
\* "", "hé", "€😊": UTF-8 sequences of one to four bytes
Texts == { <<>>, <<104, 233>>, <<8364, 128522>> }

\* plain text: clear, set_text, get_text
TextMenu ==
    {Op("clear", <<>>), Op("get_text", <<>>)} \cup {Op("set_text", T) : T \in Texts}

Init == InitContext /\ InitWatcher /\ menu = TextMenu

Spec == Init /\ [][Next]_vars

\* the formats has is asked for
Formats ==
    {Format(k) : k \in {"Text", "Rtf", "Html", "Image", "Files"}}
        \cup {Other("TARGETS"), Other("nonexistent/type")}

\* the formats on offer: clear, set_text, has, available_formats, get_text
FormatsMenu ==
    {Op("clear", <<>>), Op("set_text", <<104>>), Op("available_formats", <<>>),
     Op("get_text", <<>>)}
        \cup {Op("has", F) : F \in Formats}

InitFormats == InitContext /\ InitWatcher /\ menu = FormatsMenu

SpecFormats == InitFormats /\ [][Next]_vars

\* "a", "{b}", "<c>"
TextA == <<97>>
RtfB == <<123, 98, 125>>
HtmlC == <<60, 99, 62>>

Kinds3 == <<Format("Text"), Format("Rtf"), Format("Html")>>

Contents3 == <<Content("Text", TextA), Content("Rtf", RtfB), Content("Html", HtmlC)>>

\* several formats at once: set, set_text, has, the typed getters, get
MultiMenu ==
    {Op("set", Contents3), Op("set_text", <<104>>), Op("get_text", <<>>),
     Op("get_rich_text", <<>>), Op("get_html", <<>>), Op("get", Kinds3)}
        \cup {Op("has", Kinds3[i]) : i \in 1..3}

InitMulti == InitContext /\ InitWatcher /\ menu = MultiMenu

SpecMulti == InitMulti /\ [][Next]_vars

\* named buffers: set_text, clear, get_buffer
BufferMenu ==
    {Op("clear", <<>>), Op("set_text", <<104>>)}
        \cup {Op("get_buffer", n) : n \in {"nonexistent/type", "image/png", "UTF8_STRING"}}

InitBuffer == InitContext /\ InitWatcher /\ menu = BufferMenu

SpecBuffer == InitBuffer /\ [][Next]_vars

\* "file:///a", "file:///b": file URIs hold no line break (RFC 3986)
FileA == FILE_PATH_PREFIX \o <<47, 97>>
FileB == FILE_PATH_PREFIX \o <<47, 98>>

FileLists == { <<>>, <<FileA>>, <<FileA, FileB>>, <<FileB, FileA, FileB>> }

\* file lists: clear, set_files, get_files
FilesMenu ==
    {Op("clear", <<>>), Op("get_files", <<>>)} \cup {Op("set_files", L) : L \in FileLists}

InitFiles == InitContext /\ InitWatcher /\ menu = FilesMenu

SpecFiles == InitFiles /\ [][Next]_vars

\* a format of the application's own, and the buffers stored under it
CustomName == "application/x-custom"

Buffers == { <<>>, <<0, 255>>, <<10, 13, 10>> }

\* custom formats: clear, set_buffer, get_buffer, has, get_text
CustomMenu ==
    {Op("clear", <<>>), Op("get_buffer", CustomName), Op("has", Other(CustomName)),
     Op("get_text", <<>>)}
        \cup {Op("set_buffer", OtherContent(CustomName, B)) : B \in Buffers}

InitCustom == InitContext /\ InitWatcher /\ menu = CustomMenu

SpecCustom == InitCustom /\ [][Next]_vars

\* a text of "x"s one byte longer than the largest request
BigText == [i \in 1..(MaxRequestBytes + 1) |-> 120]

\* the responder at work for other clients: this process only writes
\* (clear, set_text of a short and of a long text, set of three formats),
\* the other participant claims, asks and sends events to the owner window
ResponderMenu ==
    {Op("clear", <<>>), Op("set_text", <<104>>), Op("set_text", BigText),
     Op("set", Contents3)}

InitResponder == InitContext /\ InitWatcher /\ menu = ResponderMenu

NextResponder ==
    \/ \E t \in Threads : Call(t)
    \/ \E t \in Threads : WriteReplace(t)
    \/ \E t \in Threads : WriteClaim(t)
    \/ \E t \in Threads : WriteVerify(t)
    \/ ProcessServerReq
    \/ PeerClaim
    \/ PeerAsk
    \/ PeerSend

SpecResponder == InitResponder /\ [][NextResponder]_vars

\* the reader against owners of every kind: set_text, get_buffer,
\* available_formats; the other participant also answers with properties of
\* a foreign type and sends stray events
ReadMenu ==
    {Op("set_text", <<104>>), Op("get_buffer", "UTF8_STRING"),
     Op("available_formats", <<>>)}

InitRead == InitContext /\ InitWatcher /\ menu = ReadMenu

NextRead ==
    \/ \E t \in Threads : Call(t)
    \/ \E t \in Threads : WriteReplace(t)
    \/ \E t \in Threads : WriteClaim(t)
    \/ \E t \in Threads : WriteVerify(t)
    \/ \E t \in Threads : ReadConvert(t)
    \/ \E t \in Threads : ReadEvent(t)
    \/ \E t \in Threads : ReadDelete(t)
    \/ ProcessServerReq
    \/ PeerClaim
    \/ PeerAnswer
    \/ PeerAnswerTyped
    \/ PeerChunk
    \/ PeerNotify

SpecRead == InitRead /\ [][NextRead]_vars

\* the same with the threads scheduled: the caller's thread goes on in
\* process_event and read, the responder thread in its loop, and an owner
\* that has announced an incremental transfer goes on sending it
SpecReadLive ==
    /\ SpecRead
    /\ WF_vars(\E t \in Threads : ReadEvent(t))
    /\ WF_vars(\E t \in Threads : ReadDelete(t))
    /\ WF_vars(ProcessServerReq)
    /\ WF_vars(PeerChunk)

\* this process alone, reading back what it has set: a short text and a
\* text longer than the largest request; both threads scheduled
OwnMenu ==
    {Op("set_text", <<104>>), Op("set_text", BigText), Op("get_buffer", "UTF8_STRING")}

InitOwn == InitContext /\ InitWatcher /\ menu = OwnMenu

NextOwn ==
    \/ \E t \in Threads : Call(t)
    \/ \E t \in Threads : WriteReplace(t)
    \/ \E t \in Threads : WriteClaim(t)
    \/ \E t \in Threads : WriteVerify(t)
    \/ \E t \in Threads : ReadConvert(t)
    \/ \E t \in Threads : ReadEvent(t)
    \/ \E t \in Threads : ReadDelete(t)
    \/ ProcessServerReq

SpecOwnLive ==
    /\ InitOwn
    /\ [][NextOwn]_vars
    /\ WF_vars(\E t \in Threads : ReadEvent(t))
    /\ WF_vars(\E t \in Threads : ReadDelete(t))
    /\ WF_vars(ProcessServerReq)

\* plain paths: "/a", and "/a\nb", a file name with a line break in it
PathA == <<47, 97>>
PathNL == <<47, 97, 10, 98>>

PathLists == { <<PathA>>, <<FileB, PathA>>, <<PathNL>> }

\* this process alone, reading back the files it has set
PathsMenu == {Op("get_files", <<>>)} \cup {Op("set_files", L) : L \in PathLists}

InitPaths == InitContext /\ InitWatcher /\ menu = PathsMenu

SpecPaths == InitPaths /\ [][NextOwn]_vars

\* every reading operation, against this process's own text and against
\* another participant's offer
Kinds2 == << Format("Text"), Format("Image") >>

GettersMenu ==
    {Op("set_text", <<104>>), Op("has", Format("Text")), Op("available_formats", <<>>),
     Op("get_buffer", "UTF8_STRING"), Op("get_text", <<>>), Op("get_rich_text", <<>>),
     Op("get_html", <<>>), Op("get_image", <<>>), Op("get_files", <<>>),
     Op("get", Kinds2)}

InitGetters == InitContext /\ InitWatcher /\ menu = GettersMenu

NextGetters ==
    \/ \E t \in Threads : Call(t)
    \/ \E t \in Threads : WriteReplace(t)
    \/ \E t \in Threads : WriteClaim(t)
    \/ \E t \in Threads : WriteVerify(t)
    \/ \E t \in Threads : ReadConvert(t)
    \/ \E t \in Threads : ReadEvent(t)
    \/ \E t \in Threads : ReadDelete(t)
    \/ ProcessServerReq
    \/ PeerClaim
    \/ PeerAnswer
    \/ PeerChunk

SpecGetters == InitGetters /\ [][NextGetters]_vars

\* two application threads on one ClipboardContext (it is Sync: every
\* operation takes &self), this process alone: both threads set the same
\* text, read it back and list the formats; every thread scheduled
Sharers == {1, 2}

SharedMenu ==
    {Op("set_text", <<104>>), Op("get_buffer", "UTF8_STRING"),
     Op("available_formats", <<>>)}

InitSharedContext ==
    /\ wait_write_data = <<>>
    /\ owner = "none"
    /\ atom_table = AtomNames
    /\ write_events = <<>>
    /\ read_events = <<>>
    /\ property = NoProperty
    /\ sequence = 0
    /\ call = [t \in Sharers |-> NoCall]
    /\ prev = [t \in Sharers |-> NoReturned]
    /\ peer = PeerIdle
    /\ responder = "running"
    /\ InitWatcher

InitShared == InitSharedContext /\ menu = SharedMenu

NextShared ==
    \/ \E t \in Sharers : Call(t)
    \/ \E t \in Sharers : WriteReplace(t)
    \/ \E t \in Sharers : WriteClaim(t)
    \/ \E t \in Sharers : WriteVerify(t)
    \/ \E t \in Sharers : ReadConvert(t)
    \/ \E t \in Sharers : ReadEvent(t)
    \/ \E t \in Sharers : ReadDelete(t)
    \/ ProcessServerReq

SpecSharedLive ==
    /\ InitShared
    /\ [][NextShared]_vars
    /\ \A t \in Sharers : WF_vars(ReadEvent(t)) /\ WF_vars(ReadDelete(t))
    /\ WF_vars(ProcessServerReq)

\* entries that cannot be converted: the empty image, and a custom name when
\* the server has no room for it (two other names are interned before)
EmptyImage == <<>>

ConvertMenu ==
    {Op("set_text", <<104>>), Op("get_text", <<>>),
     Op("set_buffer", OtherContent("x/a", <<1>>)),
     Op("set_buffer", OtherContent("x/b", <<2>>)),
     Op("set_image", EmptyImage),
     Op("set", << Content("Text", TextA), Content("Image", EmptyImage) >>),
     Op("set", << Content("Text", TextA), Content("Image", PeerBig) >>),
     Op("set", << Content("Text", TextA), OtherContent("x/c", <<3>>) >>)}

InitConvert == InitContext /\ InitWatcher /\ menu = ConvertMenu

SpecConvert == InitConvert /\ [][NextOwn]_vars

\* The RwLock around wait_write_data.  write holds the write lock from
\* wait_write_data.write() to the end of the match that clears and extends
\* the list, where the guard is dropped: position "locked".  The responder
\* takes the read lock (for a request) or the write lock (for a clear) within
\* one turn of its loop, and waits while a writer holds the lock.
HoldsToReturn(pc) == pc \in {"locked", "claim", "verify"}

Holds(pc) == pc = "locked"

LockFree == \A t \in DOMAIN call : ~Holds(call[t].pc)

\* write: wait_write_data.write() is granted
WriteLock(t) ==
    /\ call[t].pc = "replace"
    /\ LockFree
    /\ call' = [call EXCEPT ![t].pc = "locked"]
    /\ UNCHANGED << wait_write_data, owner, atom_table, write_events, read_events,
                    property, sequence, prev, peer, menu, responder, watchVars >>

\* write: writer.clear(); writer.extend(data); the guard dropped
WriteUnlock(t) ==
    /\ call[t].pc = "locked"
    /\ wait_write_data' = Replace(wait_write_data, call[t].data)
    /\ call' = [call EXCEPT ![t].pc = "claim"]
    /\ UNCHANGED << owner, atom_table, write_events, read_events, property,
                    sequence, prev, peer, menu, responder, watchVars >>

\* one turn of the responder's loop, its lock granted
LockedServerReq == LockFree /\ ProcessServerReq

\* two writers, the responder and another participant that claims the
\* selection and asks for it; a thread that holds the lock goes on, and the
\* lock, free again and again, is granted to the responder in the end
LockMenu == {Op("set_text", <<104>>)}

InitLocks == InitSharedContext /\ menu = LockMenu

NextLocks ==
    \/ \E t \in Sharers : Call(t)
    \/ \E t \in Sharers : WriteLock(t)
    \/ \E t \in Sharers : WriteUnlock(t)
    \/ \E t \in Sharers : WriteClaim(t)
    \/ \E t \in Sharers : WriteVerify(t)
    \/ LockedServerReq
    \/ PeerClaim
    \/ PeerAsk

SpecLocks ==
    /\ InitLocks
    /\ [][NextLocks]_vars
    /\ \A t \in Sharers : WF_vars(WriteUnlock(t))
    /\ SF_vars(LockedServerReq)

\* has and available_formats against an owner that answers TARGETS as it
\* likes
TargetsMenu ==
    {Op("has", Format("Text")), Op("has", Other(CustomName)),
     Op("available_formats", <<>>)}

InitTargets == InitContext /\ InitWatcher /\ menu = TargetsMenu

NextTargets ==
    \/ \E t \in Threads : Call(t)
    \/ \E t \in Threads : ReadConvert(t)
    \/ \E t \in Threads : ReadEvent(t)
    \/ \E t \in Threads : ReadDelete(t)
    \/ PeerClaim
    \/ PeerAnswer
    \/ PeerAnswerTargets

SpecTargets == InitTargets /\ [][NextTargets]_vars

(***************************************************************************)
(* What a thread's last two calls say.                                     *)
(***************************************************************************)
\* thread t has returned from op, its call before that was a successful
\* before, and this process holds CLIPBOARD: no other participant has taken
\* it since that earlier call's claim
AfterOk(t, before, op) ==
    /\ call[t].pc = "idle"
    /\ call[t].op = op
    /\ prev[t].op = before
    /\ prev[t].res.kind = "Ok"
    /\ owner = "self"

(***************************************************************************)
(* C1.  When set_text(T) has returned Ok and no other participant has      *)
(* claimed CLIPBOARD since, the next get_text() of the same context        *)
(* returns exactly T.                                                      *)
(***************************************************************************)
TextRoundTrip ==
    \A t \in Threads :
        AfterOk(t, "set_text", "get_text") => call[t].res = Ok(prev[t].arg)

(***************************************************************************)
(* C2.  Once set([Text(a), Rtf(b), Html(c)]) has replaced the payload, and *)
(* until the next write replaces it, every TARGETS reply the responder     *)
(* serves to an independent reader lists all three formats or none.        *)
(***************************************************************************)
\* the payload was last replaced by set(Contents3): the call is past its
\* replacement or has returned, or it was the call before and the present
\* call has replaced nothing yet
SetAllInForce(t) ==
    \/ /\ call[t].op = "set"
       /\ call[t].arg = Contents3
       /\ call[t].pc \in {"claim", "verify", "idle"}
    \/ /\ prev[t].op = "set"
       /\ prev[t].arg = Contents3
       /\ call[t].op \in WriteOps => call[t].pc = "replace"

\* the responder takes a TARGETS request of the other participant
ServesTargetsToPeer ==
    /\ write_events # <<>>
    /\ Head(write_events).type = "SelectionRequest"
    /\ Head(write_events).target = atoms.TARGETS
    /\ Head(write_events).requestor = "peer"
    /\ write_events' = Tail(write_events)

Lists(reply, kind) ==
    Contains(parse_atom_list(reply.value).list, FormatAtom(Format(kind), atom_table))

AllOrNone(reply) ==
    \/ Lists(reply, "Text") /\ Lists(reply, "Rtf") /\ Lists(reply, "Html")
    \/ ~Lists(reply, "Text") /\ ~Lists(reply, "Rtf") /\ ~Lists(reply, "Html")

NoPartialOffer ==
    [][\A t \in Threads :
          SetAllInForce(t) /\ ServesTargetsToPeer =>
              /\ peer'.got.target = atoms.TARGETS
              /\ peer'.got.property # NONE
              /\ AllOrNone(peer'.got)]_vars

\* the other participant got all three formats listed while the first call
\* of the context, set(Contents3), was still reading back the owner
PeerSawAllDuringSet ==
    \E t \in Threads :
        /\ prev[t].op = "none"
        /\ call[t].op = "set"
        /\ call[t].pc = "verify"
        /\ peer.got.target = atoms.TARGETS
        /\ Lists(peer.got, "Text") /\ Lists(peer.got, "Rtf") /\ Lists(peer.got, "Html")

(***************************************************************************)
(* C3.  With no clipboard change in between, has(F) is true exactly when   *)
(* the name of F is in the list available_formats() returns.               *)
(***************************************************************************)
FormatName(f) ==
    IF f.kind = "Other" THEN f.name
    ELSE get_atom_name(atom_table, FormatAtom(f, atom_table))

\* has(F) and then available_formats(), while no other participant has ever
\* taken the selection: nothing changed the clipboard between the two
HasIffListed ==
    \A t \in Threads :
        ( /\ call[t].pc = "idle"
          /\ call[t].op = "available_formats"
          /\ prev[t].op = "has"
          /\ peer.claims = 0 )
        => ( prev[t].res = Ok(TRUE)
             <=> /\ call[t].res.kind = "Ok"
                 /\ Contains(call[t].res.val, FormatName(prev[t].arg)) )

(***************************************************************************)
(* C4.  After clear() has returned Ok, and with no other participant       *)
(* writing since, has(F) is false for every format F.                      *)
(***************************************************************************)
ClearedHasNothing ==
    \A t \in Threads : AfterOk(t, "clear", "has") => call[t].res = Ok(FALSE)

(***************************************************************************)
(* C5.  clear() called twice in a row: after the second call the payload   *)
(* and the offered formats are empty as after the first, and the second    *)
(* call returns Ok unless another participant took CLIPBOARD before its    *)
(* read-back of the owner, which it reports as the ownership error.        *)
(***************************************************************************)
ClearedTwice(t) ==
    /\ call[t].pc = "idle"
    /\ call[t].op = "clear"
    /\ prev[t].op = "clear"
    /\ prev[t].res.kind = "Ok"

ClearIdempotent ==
    \A t \in Threads :
        ClearedTwice(t) =>
            /\ wait_write_data = <<>>
            /\ Targets(wait_write_data) = <<atoms.TARGETS, atoms.SAVE_TARGETS>>
            /\ owner = "self" => call[t].res = Ok(<<>>)
            /\ \/ call[t].res = Ok(<<>>)
               \/ call[t].res = Err("OwnershipError") /\ peer.claims > 0

\* the second clear() returned Ok, this process still the owner
ClearedTwiceOk ==
    \E t \in Threads : ClearedTwice(t) /\ call[t].res = Ok(<<>>) /\ owner = "self"

\* C5 as stated: both calls return Ok whatever the other participants do
ClearTwiceAlwaysOk ==
    \A t \in Threads : ClearedTwice(t) => call[t].res = Ok(<<>>)

(***************************************************************************)
(* C7.  get_buffer(name) answered with a negative property by the present  *)
(* owner returns NoData, not a protocol error.                             *)
(***************************************************************************)
\* this process has been the only owner there ever was, so the negative
\* answer is its responder's
AbsentFormatIsNoData ==
    \A t \in Threads :
        ( /\ call[t].pc = "idle"
          /\ call[t].op = "get_buffer"
          /\ call[t].negative
          /\ owner = "self"
          /\ peer.claims = 0 )
        => call[t].res = Err("NoData")

(***************************************************************************)
(* C8.  After set_files(L) has succeeded for a list L of file URIs,        *)
(* get_files() returns exactly L.                                          *)
(***************************************************************************)
FilesRoundTrip ==
    \A t \in Threads :
        ( /\ AfterOk(t, "set_files", "get_files")
          /\ \A i \in 1..Len(prev[t].arg) : StartsWith(prev[t].arg[i], FILE_PATH_PREFIX) )
        => call[t].res = Ok(prev[t].arg)

(***************************************************************************)
(* C9.  A value the owner delivers as an INCR transfer is assembled by the *)
(* reader into exactly the owner's value.                                  *)
(***************************************************************************)
IncrRead(t) ==
    /\ call[t].pc = "idle"
    /\ call[t].op = "get_buffer"
    /\ call[t].is_incr

IncrAssembled ==
    \A t \in Threads :
        IncrRead(t) =>
            /\ peer.xfer.target = AtomIn(atom_table, call[t].arg)
            /\ call[t].res = Ok(peer.xfer.value)
            /\ Len(call[t].res.val) = Len(peer.xfer.value)

\* the three bytes of image data came in over an INCR transfer
IncrImageRead ==
    \E t \in Threads :
        /\ IncrRead(t)
        /\ call[t].arg = "image/png"
        /\ call[t].res = Ok(PeerBig)

(***************************************************************************)
(* C10.  After set([Text(a), Rtf(b), Html(c)]) has returned Ok, with no    *)
(* other participant writing, has(K) is true for each kind set, each typed *)
(* getter returns the value set for its kind and get over the three kinds  *)
(* returns the three entries; and after set_text(v), has(Text) is true.    *)
(***************************************************************************)
ReadsWhatWasSet ==
    \A t \in Threads :
        /\ ( /\ call[t].pc = "idle"
             /\ prev[t].op = "set"
             /\ prev[t].arg = Contents3
             /\ prev[t].res.kind = "Ok"
             /\ owner = "self" )
           => /\ call[t].op = "has" => call[t].res = Ok(TRUE)
              /\ call[t].op = "get_text" => call[t].res = Ok(TextA)
              /\ call[t].op = "get_rich_text" => call[t].res = Ok(RtfB)
              /\ call[t].op = "get_html" => call[t].res = Ok(HtmlC)
              /\ call[t].op = "get" => call[t].res = Ok(Contents3)
        /\ ( /\ AfterOk(t, "set_text", "has")
             /\ call[t].arg = Format("Text") )
           => call[t].res = Ok(TRUE)

(***************************************************************************)
(* The watcher alone.  The thread in start_watch and the handlers it calls *)
(* keep running: weak fairness of the loop's two steps.                    *)
(***************************************************************************)
InitWatch == InitContext /\ InitWatcher /\ menu = {}

NextWatch ==
    \/ AddHandler
    \/ GetShutdownChannel
    \/ Stop
    \/ StartWatch
    \/ WatchRecv
    \/ WatchPoll
    \/ WatchEvent

SpecWatch ==
    InitWatch /\ [][NextWatch]_vars /\ WF_vars(WatchRecv) /\ WF_vars(WatchPoll)

(***************************************************************************)
(* C6.  Once a stop signal is queued for a running start_watch, the loop   *)
(* does at most the rest of its current iteration (the poll and the        *)
(* handlers of one event) and returns at its next recv_timeout, whether or *)
(* not any clipboard change is ever observed; and it does return.          *)
(***************************************************************************)
StopPending == ~NotWatching /\ stop_channel > 0

StopReturnsWithinOneIteration ==
    /\ [][StopPending =>
            \/ watch'.pc = watch.pc /\ watch'.handled = watch.handled
            \/ watch.pc = "poll" /\ watch'.pc = "recv" /\ stop_channel' > 0
            \/ watch.pc = "recv" /\ watch'.pc = "done"]_vars
    /\ (StopPending ~> watch.pc = "done")

\* start_watch has returned on a stop sent while it was waiting, having seen
\* no clipboard change at all
StoppedWithoutChanges ==
    /\ watch.pc = "done"
    /\ watch.waited
    /\ watch.delivered = 0
    /\ issued = 1
    /\ tokens = 0
    /\ stop_channel = 0

(***************************************************************************)
(* C11.  get(formats) returns Ok with the contents in the order of the     *)
(* requested formats, and a requested format the owner does not offer      *)
(* contributes no entry.                                                   *)
(***************************************************************************)
\* get has returned while this process has been the only owner there ever
\* was: what is on offer is the stored list
GetReturned(t) ==
    /\ call[t].pc = "idle"
    /\ call[t].op = "get"
    /\ owner = "self"
    /\ peer.claims = 0

Offered(kind) ==
    FindData(wait_write_data, FormatAtom(Format(kind), atom_table)) # <<>>

GetSkipsAbsent ==
    \A t \in Threads :
        GetReturned(t) =>
            LET wanted == SelectSeq(call[t].arg, LAMBDA f : Offered(f.kind))
            IN  /\ call[t].res.kind = "Ok"
                /\ Len(call[t].res.val) = Len(wanted)
                /\ \A i \in 1..Len(wanted) : call[t].res.val[i].kind = wanted[i].kind

(***************************************************************************)
(* C12.  A typed getter asked for a format the owner does not offer        *)
(* returns an absent or empty result, never an error.                      *)
(***************************************************************************)
TypedGetters == TextGetters \cup {"get_files", "get_buffer"}

\* the getter's conversion was answered with the negative property by this
\* process, the only owner there ever was
GetterRefused(t) ==
    /\ call[t].pc = "idle"
    /\ call[t].op \in TypedGetters
    /\ call[t].negative
    /\ owner = "self"
    /\ peer.claims = 0

AbsentFormatIsNoError ==
    \A t \in Threads : GetterRefused(t) => call[t].res.kind = "Ok"

(***************************************************************************)
(* C13.  A write replaces the stored payload, then claims CLIPBOARD for    *)
(* the owner window, then reads the selection owner back; it returns Ok    *)
(* when the owner read back is the owner window and the ownership error    *)
(* otherwise.                                                              *)
(***************************************************************************)
\* thread t moves on in a writing call
WriteStep(t) ==
    /\ call[t].op \in WriteOps
    /\ call[t].pc # "idle"
    /\ call'[t].pc # call[t].pc

WriteInOrder ==
    [][\A t \in Threads :
          WriteStep(t) =>
              \/ /\ call[t].pc = "replace"
                 /\ call'[t].pc = "claim"
                 /\ wait_write_data' = call[t].data
                 /\ owner' = owner
              \/ /\ call[t].pc = "claim"
                 /\ call'[t].pc = "verify"
                 /\ owner' = "self"
                 /\ wait_write_data' = wait_write_data
              \/ /\ call[t].pc = "verify"
                 /\ call'[t].pc = "idle"
                 /\ owner' = owner
                 /\ wait_write_data' = wait_write_data
                 /\ call'[t].res = IF owner = "self" THEN Ok(<<>>)
                                   ELSE Err("OwnershipError")]_vars

\* a write has returned the ownership error, the other participant having
\* taken CLIPBOARD between the claim and the read-back
WriteLostToPeer ==
    \E t \in Threads :
        /\ call[t].pc = "idle"
        /\ call[t].op = "set_text"
        /\ call[t].res = Err("OwnershipError")
        /\ wait_write_data # <<>>
        /\ owner = "peer"

(***************************************************************************)
(* C14.  For each ownership-change event the watch loop takes, every       *)
(* registered handler is called exactly once, within that turn of the      *)
(* loop and in the order of registration; no handler is called otherwise.  *)
(***************************************************************************)
\* the loop takes an ownership-change event from its connection
TakesChange ==
    /\ watch.pc = "poll"
    /\ xfixes_events # <<>>
    /\ Head(xfixes_events) = "XfixesSelectionNotify"
    /\ xfixes_events' = Tail(xfixes_events)

HandlersOncePerChange ==
    [][/\ TakesChange => watch'.invoked = watch.invoked \o handlers
       /\ ~TakesChange => \/ watch'.invoked = watch.invoked
                          \/ watch.pc \in {"idle", "done"} /\ watch'.invoked = <<>>]_vars

\* two handlers, two ownership changes taken: each handler ran twice, 1 2 1 2
TwoHandlersTwoChanges ==
    /\ handlers = <<1, 2>>
    /\ watch.handled = 2
    /\ watch.invoked = <<1, 2, 1, 2>>

(***************************************************************************)
(* C15.  After set_buffer(N, B) has returned Ok, with no other participant *)
(* writing, get_buffer(N) returns exactly B and has(Other(N)) is true, the *)
(* name N resolving to one atom on both connections.                       *)
(***************************************************************************)
BufferRoundTrip ==
    \A t \in Threads :
        /\ ( AfterOk(t, "set_buffer", "get_buffer") /\ call[t].arg = prev[t].arg.name )
           => call[t].res = Ok(prev[t].arg.value)
        /\ ( AfterOk(t, "set_buffer", "has") /\ call[t].arg = Other(prev[t].arg.name) )
           => call[t].res = Ok(TRUE)

(***************************************************************************)
(* C16.  While this process owns CLIPBOARD the stored payload is the       *)
(* payload of its most recent successful write: a selection-clear of an    *)
(* earlier loss of ownership does not discard it.                          *)
(***************************************************************************)
\* the last call of the thread is a write that returned Ok, and this process
\* owns CLIPBOARD
PayloadIsLastWrite ==
    \A t \in Threads :
        ( /\ call[t].pc = "idle"
          /\ call[t].op \in WriteOps
          /\ call[t].res.kind = "Ok"
          /\ owner = "self" )
        => wait_write_data = WriteData(call[t].op, call[t].arg, atom_table)

(***************************************************************************)
(* C17.  For every selection request the responder handles it sends        *)
(* exactly one selection-notify to the requestor: with the requested       *)
(* property, after writing the entry's bytes typed as the target, for      *)
(* TARGETS and for a format of the payload, and with the property NONE for *)
(* an absent format.                                                       *)
(***************************************************************************)
\* the responder takes the event at the head of its queue
TakesEvent ==
    /\ write_events # <<>>
    /\ write_events' = Tail(write_events)

IsNotify(e) == e.type = "SelectionNotify"

Notifies(events) == Len(SelectSeq(events, IsNotify))

\* what the requestor of e is told by the step
Answered(e, prop, type, value) ==
    IF e.requestor = "peer" THEN
        /\ ~peer'.asking
        /\ peer'.got = [target |-> e.target, property |-> prop, type |-> type,
                        value |-> value]
    ELSE
        /\ Notifies(read_events') = Notifies(read_events) + 1
        /\ read_events'[Len(read_events')] = SelectionNotify(sequence, e.target, prop)
        /\ prop # NONE => property' = Property(type, value)

EveryRequestAnswered ==
    [][( TakesEvent /\ Head(write_events).type = "SelectionRequest" ) =>
          LET e == Head(write_events)
              found == FindData(wait_write_data, e.target)
          IN  IF e.target = atoms.TARGETS
              THEN Answered(e, e.property, atoms.ATOM, Bytes32(Targets(wait_write_data)))
              ELSE IF found # <<>>
              THEN Answered(e, e.property, e.target, found[1].data)
              ELSE Answered(e, NONE, NONE, <<>>)]_vars

(***************************************************************************)
(* C18.  The reply to a TARGETS request is the list TARGETS, SAVE_TARGETS  *)
(* and then the format atom of every entry of the payload as it stands     *)
(* when the responder handles the request, none omitted and none of an     *)
(* earlier payload.                                                        *)
(***************************************************************************)
FormatsOf(data_list) == [i \in 1..Len(data_list) |-> data_list[i].format]

TargetsReplyIsPayload ==
    [][ServesTargetsToPeer =>
          /\ peer'.got.property = Head(write_events).property
          /\ peer'.got.type = atoms.ATOM
          /\ ~parse_atom_list(peer'.got.value).panic
          /\ parse_atom_list(peer'.got.value).list
                = <<atoms.TARGETS, atoms.SAVE_TARGETS>> \o FormatsOf(wait_write_data)]_vars

\* the other participant was told of the three formats of set(Contents3),
\* the payload before it having been the one of set_text
PeerSawThreeAfterOne ==
    \E t \in Threads :
        /\ prev[t].op = "set_text"
        /\ call[t].op = "set"
        /\ call[t].pc = "idle"
        /\ peer.got.target = atoms.TARGETS
        /\ parse_atom_list(peer.got.value).list
              = <<atoms.TARGETS, atoms.SAVE_TARGETS, atoms.UTF8_STRING, atoms.RTF,
                  atoms.HTML>>

(***************************************************************************)
(* C19.  A selection-clear for CLIPBOARD taken by the responder empties    *)
(* the stored payload; a selection-clear for another selection and every   *)
(* other kind of event leave it as it is.                                  *)
(***************************************************************************)
ClearsOnlyOnClipboardClear ==
    [][TakesEvent =>
          LET e == Head(write_events)
          IN  IF e.type = "SelectionClear" /\ e.selection = atoms.CLIPBOARD
              THEN wait_write_data' = <<>>
              ELSE wait_write_data' = wait_write_data]_vars

\* the first call, set(Contents3), returned Ok; the other participant then
\* took the selection and the responder has taken the SelectionClear
ClearedOnLoss ==
    \E t \in Threads :
        /\ prev[t].op = "none"
        /\ call[t].op = "set"
        /\ call[t].pc = "idle"
        /\ call[t].res.kind = "Ok"
        /\ peer.claims = 1
        /\ owner = "peer"
        /\ write_events = <<>>
        /\ wait_write_data = <<>>

(***************************************************************************)
(* C20.  The responder loop serves for the whole lifetime of the context:  *)
(* it is left on a destroy notification only, and a failure while one      *)
(* event is handled does not end it.                                       *)
(***************************************************************************)
ResponderKeepsServing == responder \in {"running", "stopped"}

(***************************************************************************)
(* C21.  Whenever a read returns, with data or with an error, the PROPERTY *)
(* property of the reader's window has been deleted: the next read starts  *)
(* from a property that does not exist.                                    *)
(***************************************************************************)
\* thread t returns from read on this step: process_event has returned an
\* error, or read has done its delete_property
ReadReturns(t) ==
    /\ call[t].pc \in {"events", "delete"}
    /\ call'[t].pc \in {"idle", "convert"}

ReadLeavesNoProperty ==
    [][\A t \in Threads : ReadReturns(t) => ~property'.exists]_vars

(***************************************************************************)
(* C22.  A read moves on only on an event whose sequence number is at      *)
(* least the one recorded for its convert_selection and that is a          *)
(* selection-notify for CLIPBOARD or, once INCR mode is entered, a         *)
(* new-value property notification; an event with a smaller number, a      *)
(* notify for another selection and a property notification outside INCR   *)
(* mode are dropped with the read and its buffer as they were.             *)
(***************************************************************************)
\* process_event has nothing to do with event e in the read of thread t
Unrelated(e, t) ==
    \/ e.seq < call[t].sequence_num
    \/ e.type = "SelectionNotify" /\ e.selection # atoms.CLIPBOARD
    \/ e.type = "PropertyNotify" /\ ~call[t].is_incr

\* thread t, waiting in process_event, drops the event at the head of the queue
Discards(t) ==
    /\ call[t].pc = "events"
    /\ read_events # <<>>
    /\ read_events' = Tail(read_events)

OnlyFreshNotifyCompletes ==
    [][\A t \in Threads :
          /\ ( call[t].pc = "events" /\ call'[t] # call[t] ) =>
                LET e == Head(read_events)
                IN  /\ read_events # <<>>
                    /\ e.seq >= call[t].sequence_num
                    /\ \/ e.type = "SelectionNotify" /\ e.selection = atoms.CLIPBOARD
                       \/ /\ call[t].is_incr
                          /\ e.type = "PropertyNotify"
                          /\ e.state = "NewValue"
          /\ ( Discards(t) /\ Unrelated(Head(read_events), t) ) =>
                /\ call'[t] = call[t]
                /\ property' = property]_vars

\* the first call, get_buffer, returned the text of the other participant,
\* having dropped the SelectionNotify another client had sent
ReadPastStrayNotify ==
    \E t \in Threads :
        /\ prev[t].op = "none"
        /\ call[t].op = "get_buffer"
        /\ call[t].pc = "idle"
        /\ call[t].res = Ok(as_bytes(PeerText))
        /\ peer.sent = 1
        /\ \A i \in 1..Len(read_events) : read_events[i].type # "SelectionNotify"

(***************************************************************************)
(* C23.  A direct (non-INCR) reply makes the read fail with the type       *)
(* mismatch unless the declared type of the property is the requested      *)
(* target, or the request was for TARGETS and the type is ATOM; a reply of *)
(* type ATOM to another request is a type mismatch.                        *)
(***************************************************************************)
\* thread t takes the SelectionNotify of its conversion, the property
\* written and not an INCR marker
TakesDirectReply(t) ==
    /\ call[t].pc = "events"
    /\ call'[t] # call[t]
    /\ read_events # <<>>
    /\ Head(read_events).type = "SelectionNotify"
    /\ Head(read_events).selection = atoms.CLIPBOARD
    /\ Head(read_events).seq >= call[t].sequence_num
    /\ Head(read_events).property # NONE
    /\ property.exists
    /\ property.type # atoms.INCR

TypeAccepted(target, type) ==
    \/ type = target
    \/ target = atoms.TARGETS /\ type = atoms.ATOM

DirectReplyTypeChecked ==
    [][\A t \in Threads :
          TakesDirectReply(t) =>
              IF TypeAccepted(call[t].target, property.type)
              THEN /\ call'[t].pc = "delete"
                   /\ call'[t].buff = call[t].buff \o property.value
              ELSE /\ call'[t].pc = "idle"
                   /\ call'[t].res = Err("TypeMismatch")]_vars

(***************************************************************************)
(* C24.  In an incremental transfer the reader deletes the property on     *)
(* the INCR marker, before any chunk; then each new-value property         *)
(* notification makes it fetch and delete the property once, a non-empty   *)
(* value going to the end of the buffer and the first empty value ending   *)
(* the read, whose buffer is the chunks in their order of arrival.         *)
(***************************************************************************)
\* thread t, in process_event, takes an event of its own read: the queue of
\* the reader's connection changes and no other client or thread has acted
TakesFresh(t) ==
    /\ call[t].pc = "events"
    /\ read_events # <<>>
    /\ Head(read_events).seq >= call[t].sequence_num
    /\ read_events' # read_events
    /\ peer' = peer
    /\ write_events' = write_events

\* ... the SelectionNotify that names a property holding the INCR marker
TakesIncrMarker(t) ==
    /\ TakesFresh(t)
    /\ Head(read_events).type = "SelectionNotify"
    /\ Head(read_events).selection = atoms.CLIPBOARD
    /\ Head(read_events).property # NONE
    /\ property.exists
    /\ property.type = atoms.INCR

\* ... in INCR mode, the notification of a chunk the owner has written
TakesChunk(t) ==
    /\ TakesFresh(t)
    /\ call[t].is_incr
    /\ Head(read_events).type = "PropertyNotify"
    /\ Head(read_events).state = "NewValue"
    /\ property.exists
    /\ property.type = call[t].target

ReadOps == {"get_buffer", "available_formats"}

\* the SelectionNotify of the conversion of thread t is on its connection
ReadAnswered(t) ==
    /\ call[t].pc = "events"
    /\ \E i \in 1..Len(read_events) :
          /\ read_events[i].type = "SelectionNotify"
          /\ read_events[i].selection = atoms.CLIPBOARD
          /\ read_events[i].target = call[t].target
          /\ read_events[i].seq >= call[t].sequence_num

OwnRequestPending(t) ==
    /\ call[t].pc = "events"
    /\ \E i \in 1..Len(write_events) :
          /\ write_events[i].type = "SelectionRequest"
          /\ write_events[i].requestor = "reader"
          /\ write_events[i].target = call[t].target

OwnReadReturns ==
    \A t \in Threads : OwnRequestPending(t) ~> call[t].pc = "idle"

(***************************************************************************)
(* C27.  Every write replaces the payload wholesale: when a set_X or set   *)
(* returns, the stored payload is exactly the entries of that call, with   *)
(* no entry of an earlier write; and the payload the responder finds is    *)
(* at any time the whole payload of one write, or empty.                   *)
(***************************************************************************)
\* the payloads the writes of the menu store
WholePayloads ==
    { WriteData(c.op, c.arg, atom_table) : c \in {m \in menu : m.op \in WriteOps} }

\* thread t returns Ok from a writing call on this step
WriteReturnsOk(t) ==
    /\ call[t].op \in WriteOps
    /\ call[t].pc = "verify"
    /\ call'[t].pc = "idle"
    /\ call'[t].res.kind = "Ok"

PayloadIsWholeWrite ==
    /\ [](wait_write_data \in WholePayloads \cup {<<>>})
    /\ [][\A t \in Threads : WriteReturnsOk(t) => wait_write_data' = call[t].data]_vars

(***************************************************************************)
(* C28.  set(contents) with several kinds replaces the payload once, with  *)
(* the entries of all the kinds, and claims CLIPBOARD once: it does not    *)
(* write once per entry.                                                   *)
(***************************************************************************)
\* thread t is inside set
InSet(t) == call[t].op = "set" /\ call[t].pc # "idle"

\* one entry per content, in the order given, the text as its UTF-8 bytes
EntriesOf(contents) ==
    [i \in 1..Len(contents) |->
        ClipboardData(FormatAtom(Format(contents[i].kind), atom_table),
                      as_bytes(contents[i].value))]

SetWritesOnce ==
    [][\A t \in Threads :
          InSet(t) =>
              /\ call'[t].pc # call[t].pc =>
                    <<call[t].pc, call'[t].pc>>
                        \in {<<"replace", "claim">>, <<"claim", "verify">>,
                             <<"verify", "idle">>}
              /\ ( call[t].pc = "replace" /\ call'[t].pc = "claim" ) =>
                    wait_write_data' = EntriesOf(call[t].arg)
              /\ ( wait_write_data' # wait_write_data /\ wait_write_data' # <<>> ) =>
                    call[t].pc = "replace" /\ call'[t].pc = "claim"
              /\ ( owner' # owner /\ owner' = "self" ) =>
                    call[t].pc = "claim" /\ call'[t].pc = "verify"]_vars

\* set(Contents3) after set_text has returned Ok and the three entries are
\* the payload
SetReplacedAll ==
    \E t \in Threads :
        /\ AfterOk(t, "set_text", "set")
        /\ call[t].res.kind = "Ok"
        /\ wait_write_data = EntriesOf(Contents3)

(***************************************************************************)
(* C29.  set_files(L) stores the list under the three file-list formats in *)
(* one payload: text/uri-list holds the URIs joined by newlines,           *)
(* x-special/gnome-copied-files and x-special/nautilus-clipboard hold      *)
(* "copy\n" and then the same joined list; all three are on offer or none. *)
(***************************************************************************)
\* the URI set_files makes of an entry
Uri(f) == IF StartsWith(f, FILE_PATH_PREFIX) THEN f ELSE FILE_PATH_PREFIX \o f

JoinedUris(list) == as_bytes(join([i \in 1..Len(list) |-> Uri(list[i])], <<LF>>))

FileFormats == {atoms.FILE_LIST, atoms.GNOME_COPY_FILES, atoms.NAUTILUS_FILE_LIST}

\* the file-list formats among those of a list of atoms
FileFormatsIn(list) == {a \in FileFormats : Contains(list, a)}

FilesUnderAllFormats ==
    /\ [](FileFormatsIn(FormatsOf(wait_write_data)) \in {{}, FileFormats})
    /\ [][\A t \in Threads :
            ( call[t].op = "set_files" /\ call[t].pc = "replace"
              /\ call'[t].pc = "claim" ) =>
                wait_write_data' =
                    << ClipboardData(atoms.FILE_LIST, JoinedUris(call[t].arg)),
                       ClipboardData(atoms.GNOME_COPY_FILES,
                                     CopyLine \o JoinedUris(call[t].arg)),
                       ClipboardData(atoms.NAUTILUS_FILE_LIST,
                                     CopyLine \o JoinedUris(call[t].arg)) >>]_vars
    /\ [][ServesTargetsToPeer =>
            FileFormatsIn(parse_atom_list(peer'.got.value).list)
                \in {{}, FileFormats}]_vars

\* set_files of two files has returned Ok and the other participant has
\* been told of the three formats
PeerSawFileFormats ==
    \E t \in Threads :
        /\ call[t].pc = "idle"
        /\ call[t].op = "set_files"
        /\ call[t].arg = <<FileA, FileB>>
        /\ call[t].res.kind = "Ok"
        /\ Len(wait_write_data) = 3
        /\ wait_write_data[2].data = CopyLine \o as_bytes(FileA \o <<LF>> \o FileB)
        /\ peer.got.target = atoms.TARGETS
        /\ FileFormatsIn(parse_atom_list(peer.got.value).list) = FileFormats

(***************************************************************************)
(* C30.  set_files keeps an entry that starts with "file://" and puts      *)
(* "file://" before every other entry; get_files returns, in order, the    *)
(* lines of the text/uri-list value that start with "file://": every       *)
(* string it returns starts with "file://", and a plain path p that was    *)
(* set is read back as "file://" followed by p.                            *)
(***************************************************************************)
PathsReadBack ==
    \A t \in Threads :
        ( call[t].pc = "idle" /\ call[t].op = "get_files" ) =>
            /\ call[t].res.kind = "Ok"
            /\ \A i \in 1..Len(call[t].res.val) :
                  StartsWith(call[t].res.val[i], FILE_PATH_PREFIX)
            /\ AfterOk(t, "set_files", "get_files") =>
                  call[t].res.val = [i \in 1..Len(prev[t].arg) |-> Uri(prev[t].arg[i])]

(***************************************************************************)
(* C31.  The handlers a start_watch run invokes are exactly those          *)
(* registered before the run began: the handler list changes only by       *)
(* add_handler, never while start_watch runs and never at a stop or the    *)
(* issue of a shutdown token, and once the run has taken an ownership      *)
(* change the set of handlers it has invoked is the set of the list (and   *)
(* is empty before that).                                                  *)
(***************************************************************************)
Elems(s) == { s[i] : i \in 1..Len(s) }

HandlersFixedDuringRun ==
    /\ [][( \/ ~NotWatching
            \/ watch' # watch
            \/ stop_channel' # stop_channel
            \/ tokens' # tokens ) => handlers' = handlers]_vars
    /\ [](~NotWatching =>
             Elems(watch.invoked) = IF watch.handled > 0 THEN Elems(handlers) ELSE {})

\* a second run, entered with two handlers registered, has taken one change,
\* invoked both and returned on a stop
SecondRunInvokedBoth ==
    /\ watch.pc = "done"
    /\ watch.runs = 2
    /\ watch.handled = 1
    /\ handlers = << 1, 2 >>
    /\ watch.invoked = << 1, 2 >>

(***************************************************************************)
(* C32.  The reading operations has, available_formats, get_buffer,        *)
(* get_text, get_rich_text, get_html, get_image, get_files and get leave   *)
(* the stored payload and the ownership of the selection as they are:      *)
(* every step a thread takes in one of them, from its entry to its return, *)
(* whatever it returns, and the responder's answer to the request of such  *)
(* a read, changes neither.                                                *)
(***************************************************************************)
Getters ==
    {"has", "available_formats", "get_buffer", "get_text", "get_rich_text",
     "get_html", "get_image", "get_files", "get"}

\* thread t enters, goes on in, or returns from a reading operation
GetterStep(t) == call'[t] # call[t] /\ call'[t].op \in Getters

\* the responder takes the reader's own conversion request
AnswersReader ==
    /\ write_events # <<>>
    /\ write_events' = Tail(write_events)
    /\ Head(write_events).type = "SelectionRequest"
    /\ Head(write_events).requestor = "reader"

GettersChangeNothing ==
    [][( AnswersReader \/ \E t \in Threads : GetterStep(t) ) =>
           /\ wait_write_data' = wait_write_data
           /\ owner' = owner]_vars

\* every getter's outcome while this process owns the selection with its text
\* stored: get_image has failed, get has returned the text alone
GettersReturnedBoth ==
    \E t \in Threads :
        /\ call[t].pc = "idle"
        /\ call[t].op = "get"
        /\ call[t].res = Ok(<< Content("Text", <<104>>) >>)
        /\ prev[t].op = "get_image"
        /\ prev[t].res.kind = "Err"
        /\ owner = "self"
        /\ wait_write_data = << ClipboardData(atoms.UTF8_STRING, <<104>>) >>

(***************************************************************************)
(* C33.  The shutdown signal is one-shot.  A WatcherShutdown sends at most *)
(* one stop signal, when it is stopped or dropped, and is gone with it; a  *)
(* signal is taken by one recv_timeout of the loop, which ends that run of *)
(* start_watch and no other; and start_watch returns only by taking one.   *)
(* So the signals queued and the runs ended together are the tokens used.  *)
(***************************************************************************)
RunsEnded == IF NotWatching THEN watch.runs ELSE watch.runs - 1

ShutdownIsOneShot ==
    /\ [](stop_channel + RunsEnded = issued - tokens)
    /\ [][/\ stop_channel' > stop_channel =>
               /\ stop_channel' = stop_channel + 1
               /\ tokens' = tokens - 1
          /\ stop_channel' < stop_channel =>
               /\ stop_channel' = stop_channel - 1
               /\ watch.pc = "recv"
               /\ watch'.pc = "done"
          /\ ( watch'.pc = "done" /\ watch.pc # "done" ) =>
               stop_channel' = stop_channel - 1]_vars

\* two tokens, each used once, have ended two runs and nothing is left queued
TwoTokensTwoRuns ==
    /\ issued = 2
    /\ tokens = 0
    /\ stop_channel = 0
    /\ watch.runs = 2
    /\ watch.pc = "done"

(***************************************************************************)
(* C34.  Two threads reading at once through one ClipboardContext: each    *)
(* call returns the data of the target it asked for itself (here the text  *)
(* this process has set for get_buffer("UTF8_STRING"), the name of that    *)
(* format for available_formats, or the server's refusal while nobody owns *)
(* the selection), and each call returns.                                  *)
(***************************************************************************)
\* the server refused the conversion: nobody owned CLIPBOARD
Refused(c) == c.res = Err("ProtocolError") /\ c.negative

ConcurrentReadsKeepApart ==
    /\ [](\A t \in DOMAIN call :
             call[t].pc = "idle" =>
                 /\ call[t].op = "get_buffer" =>
                        call[t].res = Ok(<<104>>) \/ Refused(call[t])
                 /\ call[t].op = "available_formats" =>
                        call[t].res = Ok(<< "UTF8_STRING" >>) \/ Refused(call[t]))
    /\ \A t \in Sharers :
          (t \in DOMAIN call /\ call[t].pc = "events") ~> (call[t].pc # "events")

(***************************************************************************)
(* C35.  set, set_image and set_buffer convert their entries before they   *)
(* write: when an entry cannot be converted (an image that has no PNG      *)
(* encoding, a custom name the server gives no atom for) the call returns  *)
(* the error at once, the stored payload, the ownership and the responder's *)
(* queue being what they were, also when earlier entries of the list were  *)
(* valid; and a call that does go on to write has converted every entry.   *)
(***************************************************************************)
Converting == {"set", "set_image", "set_buffer"}

\* an image entry that has no PNG encoding
BadImage(op, arg) ==
    \E i \in 1..Len(Conversions(op, arg)) :
        /\ Conversions(op, arg)[i].kind = "Image"
        /\ Conversions(op, arg)[i].value = EmptyImage

\* a custom name that is not interned, the server having no room for more
BadName(op, arg, tab) ==
    /\ Len(tab) >= MaxAtoms
    /\ \E i \in 1..Len(Conversions(op, arg)) :
          /\ Conversions(op, arg)[i].kind = "Other"
          /\ ~Contains(tab, Conversions(op, arg)[i].name)

\* thread t enters a converting call
EntersConverting(t) ==
    /\ call[t].pc = "idle"
    /\ call'[t] # call[t]
    /\ call'[t].op \in Converting

FailedConversionWritesNothing ==
    [][\A t \in Threads :
          EntersConverting(t) =>
              /\ ( BadImage(call'[t].op, call'[t].arg)
                   \/ BadName(call'[t].op, call'[t].arg, atom_table) ) =>
                     /\ call'[t].pc = "idle"
                     /\ call'[t].res.kind = "Err"
              /\ call'[t].pc = "idle" =>
                     /\ call'[t].res.kind = "Err"
                     /\ wait_write_data' = wait_write_data
                     /\ owner' = owner
                     /\ write_events' = write_events
              /\ call'[t].pc # "idle" =>
                     /\ call'[t].pc = "replace"
                     /\ ~BadImage(call'[t].op, call'[t].arg)]_vars

\* set([Text, Image]) with the empty image has failed after set_text: the
\* text set before is still the payload, and this process still the owner
SetFailedOnSecondEntry ==
    \E t \in Threads :
        /\ call[t].pc = "idle"
        /\ call[t].op = "set"
        /\ call[t].arg = << Content("Text", TextA), Content("Image", EmptyImage) >>
        /\ call[t].res = Err("image is empty")
        /\ prev[t].op = "set_text"
        /\ prev[t].res.kind = "Ok"
        /\ owner = "self"
        /\ wait_write_data = << ClipboardData(atoms.UTF8_STRING, <<104>>) >>

(***************************************************************************)
(* C36.  A write that fails at the ownership step leaves the stored        *)
(* payload as it was before the call.  Stated for a set_text that is the   *)
(* thread's first call or follows its successful clear, so that the        *)
(* payload before the call was empty: when it has returned the ownership   *)
(* error, the payload is empty.                                            *)
(***************************************************************************)
\* thread t has returned the ownership error from a set_text entered with
\* nothing stored
FailedOnEmpty(t) ==
    /\ call[t].pc = "idle"
    /\ call[t].op = "set_text"
    /\ call[t].res = Err("OwnershipError")
    /\ prev[t].op \in {"none", "clear"}
    /\ prev[t].res.kind = "Ok"

FailedWriteKeepsPayload ==
    \A t \in Threads : FailedOnEmpty(t) => wait_write_data = <<>>

(***************************************************************************)
(* C37.  A writer does not hold the payload lock across a server round     *)
(* trip: while a thread is at the claim or the read-back of the owner in   *)
(* write it holds no lock, so with no thread inside the replacement of the *)
(* list the responder can take its next event, in every state; and every   *)
(* event queued for the responder is taken, whatever the writers, the      *)
(* clears and the requests do meanwhile.                                   *)
(***************************************************************************)
\* an event waits for the running responder
ResponderHasWork == responder = "running" /\ write_events # <<>>

NoLockAcrossRoundTrip ==
    /\ [](\A t \in DOMAIN call :
             call[t].pc \in {"claim", "verify"} => ~Holds(call[t].pc))
    /\ []( ( ResponderHasWork /\ \A t \in DOMAIN call : call[t].pc # "locked" )
             => ENABLED LockedServerReq )
    /\ \A n \in 1..(MaxPeerClaims + 2) :
          (ResponderHasWork /\ Len(write_events) = n)
              ~> (Len(write_events) < n \/ responder # "running")

\* a request of the other participant was answered while one writer was at
\* its claim and the other at its read-back
AnsweredBetweenWriters ==
    /\ DOMAIN call = Sharers
    /\ call[1].pc = "claim"
    /\ call[2].pc = "verify"
    /\ peer.got # NoReply
    /\ write_events = <<>>

(***************************************************************************)
(* C38.  has and available_formats return a value, false or a list or an  *)
(* error result, and never abort, whatever the owner answers to the        *)
(* TARGETS request: also for a value of type ATOM whose length is not a    *)
(* multiple of 4, and for an empty one.                                    *)
(***************************************************************************)
TargetsNeverAbort ==
    \A t \in Threads :
        ( call[t].pc = "idle" /\ call[t].op \in {"has", "available_formats"} ) =>
            call[t].res.kind \in {"Ok", "Err"}

(***************************************************************************)
(* C39.  A stop signal comes before pending change events.  When a signal  *)
(* is queued as the loop starts an iteration (the first one included),     *)
(* that iteration ends start_watch without taking an event or calling a    *)
(* handler, the events still queued staying where they are; a run ended at *)
(* its first check has called no handler; and once the signal is taken no  *)
(* handler is called until start_watch is entered again.                   *)
(***************************************************************************)
StopBeforeChanges ==
    /\ [][/\ ( watch.pc = "recv" /\ stop_channel > 0 /\ watch'.pc # "recv" ) =>
                /\ watch'.pc = "done"
                /\ watch'.invoked = watch.invoked
                /\ watch'.handled = watch.handled
                /\ xfixes_events' = xfixes_events
          /\ watch.pc = "done" =>
                \/ watch'.invoked = watch.invoked /\ watch'.handled = watch.handled
                \/ watch'.pc = "recv" /\ watch'.invoked = <<>>]_vars
    /\ []( ( watch.pc = "done" /\ ~watch.waited ) =>
              watch.invoked = <<>> /\ watch.handled = 0 )

\* start_watch has returned on a stop with an ownership change still queued
\* and a handler registered that was never called
StoppedWithChangeQueued ==
    /\ watch.pc = "done"
    /\ stop_channel = 0
    /\ handlers # <<>>
    /\ xfixes_events # <<>>
    /\ Head(xfixes_events) = "XfixesSelectionNotify"
    /\ watch.invoked = <<>>
====
